---- MODULE Spec2Model ----
(***************************************************************************)
(* Model of the Shopify/Cowlendar booking API (clubjoy-booking).           *)
(*                                                                         *)
(* JavaScript strings are modelled as sequences of one-character strings,  *)
(* so that startsWith, includes, toLowerCase, the regular expressions of   *)
(* parseEventDate and the date formatting are computed, not assumed.       *)
(* For a string-valued expression null and undefined are the two marker    *)
(* sequences NULL and UNDEFINED, which no string of the model's alphabet    *)
(* equals.                                                                 *)
(***************************************************************************)
EXTENDS Integers, Sequences, FiniteSets, TLC

VARIABLES
    clock,       \* the date of Date.now(): [y, m, d]
    env,         \* process.env: a set of [name, value] pairs
    op,          \* the operation that produced the current state
    arg,         \* argument of the service function applied last
    meta,        \* how arg was put together (read by the properties only)
    ret,         \* value returned by the service function applied last
    request,     \* the HTTP request handled last
    response,    \* the HTTP response sent for it
    storeCalls   \* calls made to the order store while handling it

vars == <<clock, env, op, arg, meta, ret, request, response, storeCalls>>

----------------------------------------------------------------------------
(* JavaScript values and strings                                           *)

NULL == <<"null">>
UNDEFINED == <<"undefined">>

\* !v for a string-or-null value: null, undefined and '' are falsy
Falsy(v) == v = NULL \/ v = UNDEFINED \/ v = <<>>

Truthy(v) == ~Falsy(v)

\* a || b
Or(a, b) == IF Truthy(a) THEN a ELSE b

\* obj.field, undefined when the object has no such property
Get(obj, field) == IF field \in DOMAIN obj THEN obj[field] ELSE UNDEFINED

\* process.env[name]
Env(name) == IF \E e \in env : e.name = name
             THEN (CHOOSE e \in env : e.name = name).value
             ELSE UNDEFINED

\* null where an array is expected: longer than every array of the model, so
\* that it differs from each of them whatever they hold
NullArray == [i \in 1..16 |-> "null"]

\* null where an object is expected
NullObject == [null |-> TRUE]

\* an array (possibly empty) is truthy, null is not
IsArray(a) == a # NullArray

Min(S) == CHOOSE x \in S : \A y \in S : x <= y

Max(S) == CHOOSE x \in S : \A y \in S : x >= y

Digits == <<"0", "1", "2", "3", "4", "5", "6", "7", "8", "9">>

UpperCase == <<"A", "B", "C", "D", "E", "F", "G", "H", "I", "J", "K", "L", "M",
               "N", "O", "P", "Q", "R", "S", "T", "U", "V", "W", "X", "Y", "Z">>

LowerCase == <<"a", "b", "c", "d", "e", "f", "g", "h", "i", "j", "k", "l", "m",
               "n", "o", "p", "q", "r", "s", "t", "u", "v", "w", "x", "y", "z">>

\* the characters of the model, in the order of their character codes
Ascii == <<" ", "(", ")", ",", "-", ".", "/">> \o Digits \o <<":", "@">> \o UpperCase
         \o <<"_">> \o LowerCase

IndexIn(seq, c) == CHOOSE i \in 1..Len(seq) : seq[i] = c

IsIn(seq, c) == \E i \in 1..Len(seq) : seq[i] = c

IsDigit(c) == IsIn(Digits, c)

IsLetter(c) == IsIn(UpperCase, c) \/ IsIn(LowerCase, c)

\* \s of a regular expression, over the model's alphabet
IsSpace(c) == c = " "

LowerChar(c) == IF IsIn(UpperCase, c) THEN LowerCase[IndexIn(UpperCase, c)] ELSE c

\* String.prototype.toLowerCase
toLowerCase(s) == [i \in 1..Len(s) |-> LowerChar(s[i])]

\* String.prototype.startsWith
startsWith(s, p) == Len(s) >= Len(p) /\ SubSeq(s, 1, Len(p)) = p

\* String.prototype.includes
includes(s, p) == \E i \in 1..(Len(s) - Len(p) + 1) : SubSeq(s, i, i + Len(p) - 1) = p

DigitVal(c) == IndexIn(Digits, c) - 1

RECURSIVE toInt(_)
\* the number a string of decimal digits denotes
toInt(s) == IF s = <<>> THEN 0
            ELSE 10 * toInt(SubSeq(s, 1, Len(s) - 1)) + DigitVal(s[Len(s)])

RECURSIVE Pad(_, _)
\* n in decimal, zero-padded to w digits
Pad(n, w) == IF w = 0 THEN <<>> ELSE Pad(n \div 10, w - 1) \o <<Digits[(n % 10) + 1]>>

UTC == <<"U", "T", "C">>
InvalidDate == <<"I", "n", "v", "a", "l", "i", "d", " ", "d", "a", "t", "e">>

----------------------------------------------------------------------------
(* The calendar and the time zones (moment, moment-timezone)               *)

IsLeap(y) == (y % 4 = 0 /\ y % 100 # 0) \/ y % 400 = 0

daysInMonth(y, m) == IF m = 2 THEN (IF IsLeap(y) THEN 29 ELSE 28)
                     ELSE IF m \in {4, 6, 9, 11} THEN 30 ELSE 31

\* days from 1970-01-01 to the civil date y-m-d
DaysFromCivil(y, m, d) ==
    LET yy == IF m <= 2 THEN y - 1 ELSE y
        era == yy \div 400
        yoe == yy - era * 400
        mp == (m + 9) % 12
        doy == (153 * mp + 2) \div 5 + d - 1
        doe == yoe * 365 + yoe \div 4 - yoe \div 100 + doy
    IN era * 146097 + doe - 719468

\* the civil date of day doy (counted from 1 March) of year yoe of an era
CivilOfYearDay(era, yoe, doy, mp) ==
    [y |-> yoe + era * 400 + (IF mp < 10 THEN 0 ELSE 1),
     m |-> IF mp < 10 THEN mp + 3 ELSE mp - 9,
     d |-> doy - (153 * mp + 2) \div 5 + 1]

CivilOfYear(era, doe, yoe) ==
    CivilOfYearDay(era, yoe, doe - (365 * yoe + yoe \div 4 - yoe \div 100),
                   (5 * (doe - (365 * yoe + yoe \div 4 - yoe \div 100)) + 2) \div 153)

CivilOfEraDay(era, doe) ==
    CivilOfYear(era, doe, (doe - doe \div 1460 + doe \div 36524 - doe \div 146096) \div 365)

\* the civil date of a day number
CivilFromDays(z) ==
    CivilOfEraDay((z + 719468) \div 146097, (z + 719468) % 146097)

\* the last Sunday of a 31-day month (1970-01-01 was a Thursday)
LastSunday(y, m) == 31 - ((DaysFromCivil(y, m, 31) + 4) % 7)

s_Rome == <<"E", "u", "r", "o", "p", "e", "/", "R", "o", "m", "e">>
s_London == <<"E", "u", "r", "o", "p", "e", "/", "L", "o", "n", "d", "o", "n">>

\* the zones the time zone database of the model knows, with their standard
\* offset from UTC in minutes and whether they keep EU summer time
Zones == {[name |-> UTC, std |-> 0, dst |-> FALSE],
          [name |-> s_Rome, std |-> 60, dst |-> TRUE],
          [name |-> s_London, std |-> 0, dst |-> TRUE]}

\* moment.tz.zone(name) !== null
getZone(name) == \E z \in Zones : z.name = name

\* summer time is in force at local midnight of y-m-d (EU rule: from the last
\* Sunday of March to the last Sunday of October, switching after midnight)
SummerAtMidnight(y, m, d) ==
    \/ m \in 4..9
    \/ m = 3 /\ d > LastSunday(y, 3)
    \/ m = 10 /\ d <= LastSunday(y, 10)

\* offset from UTC, in minutes, of local midnight of y-m-d in the zone; a zone
\* the database does not know is logged and the moment stays in UTC
OffsetAtMidnight(name, y, m, d) ==
    IF ~getZone(name) THEN 0
    ELSE LET z == CHOOSE z \in Zones : z.name = name
         IN z.std + (IF z.dst /\ SummerAtMidnight(y, m, d) THEN 60 ELSE 0)

\* YYYY-MM-DDTHH:mm:ss.SSS[Z] of the civil date c and the minute t of the day
IsoText(c, t) ==
    Pad(c.y, 4) \o <<"-">> \o Pad(c.m, 2) \o <<"-">> \o Pad(c.d, 2) \o <<"T">>
    \o Pad(t \div 60, 2) \o <<":">> \o Pad(t % 60, 2)
    \o <<":", "0", "0", ".", "0", "0", "0", "Z">>

\* Moment.prototype.toISOString of the instant n minutes after the epoch
toISOString(n) == IsoText(CivilFromDays(n \div 1440), n % 1440)

----------------------------------------------------------------------------
(* moment(datePart, 'DD MMM YYYY'): forgiving (non-strict) parsing          *)

\* index of the first character of s satisfying P, 0 when there is none
FirstWhere(s, P(_)) ==
    IF \E i \in 1..Len(s) : P(s[i]) THEN Min({i \in 1..Len(s) : P(s[i])}) ELSE 0

\* length of the longest run of characters satisfying P that starts at i
RunLen(s, i, P(_)) ==
    Max({n \in 0..(Len(s) - i + 1) : \A j \in i..(i + n - 1) : P(s[j])})

Drop(s, n) == SubSeq(s, n + 1, Len(s))

\* the n characters of s from i on, and the input left after them
Token(s, i, n) ==
    [found |-> TRUE, text |-> SubSeq(s, i, i + n - 1), rest |-> Drop(s, i + n - 1)]

NoToken(s) == [found |-> FALSE, text |-> <<>>, rest |-> s]

MatchDigitsAt(s, i, run, most) ==
    IF i = 0 THEN NoToken(s) ELSE Token(s, i, IF run > most THEN most ELSE run)

\* a token matched by /\d{1,most}/ at its first occurrence: the matched
\* digits and the input left after them; found is FALSE when nothing matches
MatchDigits(s, most) ==
    MatchDigitsAt(s, FirstWhere(s, IsDigit),
                  RunLen(s, FirstWhere(s, IsDigit), IsDigit), most)

\* the literal ' ' of the format: the input up to and including its first blank
\* is consumed; without a blank nothing is
MatchBlank(s) ==
    LET i == FirstWhere(s, IsSpace) IN IF i = 0 THEN s ELSE Drop(s, i)

\* a word may start at i: the digits from i on are followed by a letter
WordStartsAt(s, i, j) == j <= Len(s) /\ IsLetter(s[j])

MatchWordFrom(s, i, j) == Token(s, i, j - i + RunLen(s, j, IsLetter))

MatchWordAt(s, starts) ==
    IF starts = {} THEN NoToken(s)
    ELSE MatchWordFrom(s, Min(starts), Min(starts) + RunLen(s, Min(starts), IsDigit))

\* matchWord, /[0-9]{0,256}[a-z]{1,256}/i, at its first occurrence
MatchWord(s) ==
    MatchWordAt(s, {i \in 1..Len(s) : WordStartsAt(s, i, i + RunLen(s, i, IsDigit))})

\* the month-abbreviation table of the English locale
MonthsShort == << <<"j", "a", "n">>, <<"f", "e", "b">>, <<"m", "a", "r">>,
                  <<"a", "p", "r">>, <<"m", "a", "y">>, <<"j", "u", "n">>,
                  <<"j", "u", "l">>, <<"a", "u", "g">>, <<"s", "e", "p">>,
                  <<"o", "c", "t">>, <<"n", "o", "v">>, <<"d", "e", "c">> >>

\* monthsParse that compares the abbreviation as written
monthsParse_CaseSensitive(word) ==
    LET hits == {i \in 1..12 : startsWith(word, MonthsShort[i])}
    IN IF hits = {} THEN 0 ELSE Min(hits)

\* locale.monthsParse(word, 'MMM', false): the first month whose name or
\* abbreviation the word starts with, ignoring case; 0 when there is none
monthsParse(word) ==
    LET hits == {i \in 1..12 : startsWith(toLowerCase(word), MonthsShort[i])}
    IN IF hits = {} THEN 0 ELSE Min(hits)

\* hooks.parseTwoDigitYear
parseTwoDigitYear(s) == toInt(s) + (IF toInt(s) > 68 THEN 1900 ELSE 2000)

\* the date the process starts on
StartDate == [y |-> 2026, m |-> 11, d |-> 5]

\* the clock reading used for the date fields the input does not give
Today == clock

\* checkOverflow and isValid: the date fields with the verdict on them
checkOverflow(flagsValid, y, m, d) ==
    [valid |-> flagsValid /\ d >= 1 /\ d <= daysInMonth(y, m), y |-> y, m |-> m, d |-> d]

\* configFromArray: the fields the input does not give default to those of
\* today down to the first field given, and to 1 below it
configFromArray(flagsValid, haveY, haveM, haveD, year, month, day) ==
    checkOverflow(flagsValid,
                  IF haveY THEN year ELSE Today.y,
                  IF haveM THEN month ELSE IF haveY THEN 1 ELSE Today.m,
                  IF haveD THEN day ELSE IF haveY \/ haveM THEN 1 ELSE Today.d)

yearOf(text) == IF Len(text) = 2 THEN parseTwoDigitYear(text) ELSE toInt(text)

\* the tokens DD, MMM and YYYY as they were matched, and the month parsed
configFromTokens(dd, mmm, yyyy, month) ==
    configFromArray((dd.found \/ mmm.found \/ yyyy.found) /\ ~(mmm.found /\ month = 0),
                    yyyy.found, month # 0, dd.found,
                    IF yyyy.found THEN yearOf(yyyy.text) ELSE 0,
                    month,
                    IF dd.found THEN toInt(dd.text) ELSE 0)

configFromMonth(dd, mmm) ==
    configFromTokens(dd, mmm, MatchDigits(MatchBlank(mmm.rest), 4),
                     IF mmm.found THEN monthsParse(mmm.text) ELSE 0)

configFromDay(dd) == configFromMonth(dd, MatchWord(MatchBlank(dd.rest)))

\* moment.utc(datePart, 'DD MMM YYYY'): [valid, y, m, d]
momentParse(datePart) == configFromDay(MatchDigits(datePart, 2))

\* moment.duration('HH:MM') in minutes
durationMinutes(t) == toInt(SubSeq(t, 1, 2)) * 60 + toInt(SubSeq(t, 4, 5))

----------------------------------------------------------------------------
(* ShopifyService.parseEventDate                                           *)

\* eventDataString.match(/\(([^)]+)\)$/): the start of the match, 0 if none
timezoneMatch(s) ==
    LET starts == {i \in 1..Len(s) :
                      /\ s[i] = "("
                      /\ s[Len(s)] = ")"
                      /\ i + 1 <= Len(s) - 1
                      /\ \A j \in (i + 1)..(Len(s) - 1) : s[j] # ")"}
    IN IF starts = {} THEN 0 ELSE Min(starts)

\* the index of the first character at or after p that is not white space
SkipWs(s, p) == p + (IF p > Len(s) THEN 0 ELSE RunLen(s, p, IsSpace))

\* \d{2}:\d{2} matches at p
TimeAt(s, p) ==
    /\ p >= 1
    /\ p + 4 <= Len(s)
    /\ IsDigit(s[p]) /\ IsDigit(s[p + 1]) /\ s[p + 2] = ":"
    /\ IsDigit(s[p + 3]) /\ IsDigit(s[p + 4])

\* /^(.+?),\s*(\d{2}:\d{2})\s*-\s*(\d{2}:\d{2})/ matches with a first group
\* of k characters
DateTimeMatchAt(s, k) ==
    /\ k + 1 <= Len(s)
    /\ s[k + 1] = ","
    /\ LET p == SkipWs(s, k + 2)
       IN /\ TimeAt(s, p)
          /\ LET q == SkipWs(s, p + 5)
             IN /\ q <= Len(s)
                /\ s[q] = "-"
                /\ TimeAt(s, SkipWs(s, q + 1))

\* eventDataString.match(...): the length of the lazy first group, 0 if the
\* pattern does not match
dateTimeMatch(s) ==
    LET ks == {k \in 1..Len(s) : DateTimeMatchAt(s, k)}
    IN IF ks = {} THEN 0 ELSE Min(ks)

\* the value returned for a missing text and from the catch block
NoEventDetails ==
    [eventDate |-> NULL, startTime |-> NULL, endTime |-> NULL, timezone |-> UTC]

\* the timezone of line 226: the text between the trailing parentheses
timezoneOf(s) ==
    IF timezoneMatch(s) # 0 THEN SubSeq(s, timezoneMatch(s) + 1, Len(s) - 1) ELSE UTC

\* the instant of a time of day of the event date, null for an invalid date
InstantOf(eventDate, midnight, time) ==
    IF eventDate.valid THEN toISOString(midnight + durationMinutes(time)) ELSE NULL

\* the object returned for the parsed date, times and timezone
EventDetailsOf(eventDate, startTime, endTime, timezone) ==
    [eventDate |-> IF eventDate.valid
                   THEN Pad(eventDate.y, 4) \o <<"-">> \o Pad(eventDate.m, 2)
                        \o <<"-">> \o Pad(eventDate.d, 2)
                   ELSE InvalidDate,
     startTime |-> startTime,
     endTime |-> endTime,
     timezone |-> timezone,
     startDateTime |-> InstantOf(eventDate,
                           DaysFromCivil(eventDate.y, eventDate.m, eventDate.d) * 1440
                           - OffsetAtMidnight(timezone, eventDate.y, eventDate.m, eventDate.d),
                           startTime),
     endDateTime |-> InstantOf(eventDate,
                         DaysFromCivil(eventDate.y, eventDate.m, eventDate.d) * 1440
                         - OffsetAtMidnight(timezone, eventDate.y, eventDate.m, eventDate.d),
                         endTime)]

\* the groups of the match: the date part is the first k characters, the
\* start time is at p
EventDetailsAt(s, k, p) ==
    EventDetailsOf(momentParse(SubSeq(s, 1, k)),
                   SubSeq(s, p, p + 4),
                   SubSeq(s, SkipWs(s, SkipWs(s, p + 5) + 1),
                          SkipWs(s, SkipWs(s, p + 5) + 1) + 4),
                   timezoneOf(s))

\* the object built from a text the pattern matches (lines 234-246)
EventDetails(s) ==
    EventDetailsAt(s, dateTimeMatch(s), SkipWs(s, dateTimeMatch(s) + 2))

\* parseEventDate whose catch block keeps the timezone it had parsed
parseEventDate_CatchKeepsTimezone(eventDataString) ==
    IF Falsy(eventDataString) THEN NoEventDetails
    ELSE IF dateTimeMatch(eventDataString) = 0
         THEN [NoEventDetails EXCEPT !.timezone = timezoneOf(eventDataString)]
         ELSE EventDetails(eventDataString)

parseEventDate(eventDataString) ==
    IF Falsy(eventDataString) THEN NoEventDetails
    ELSE IF dateTimeMatch(eventDataString) = 0 THEN NoEventDetails
         ELSE EventDetails(eventDataString)

----------------------------------------------------------------------------
(* Schedule texts handed to parseEventDate                                 *)

s_Mars == <<"M", "a", "r", "s", "/", "P", "h", "o", "b", "o", "s">>

UpperChar(c) == IF IsIn(LowerCase, c) THEN UpperCase[IndexIn(LowerCase, c)] ELSE c

toUpperCase(s) == [i \in 1..Len(s) |-> UpperChar(s[i])]

Capitalize(s) == [i \in 1..Len(s) |-> IF i = 1 THEN UpperChar(s[i]) ELSE s[i]]

\* the day numbers written in the texts: with and without a leading zero, the
\* ends of the months, and two that no month has
DayTexts == {<<"0", "1">>, <<"5">>, <<"1", "5">>, <<"2", "8">>, <<"2", "9">>, <<"3", "0">>, <<"3", "1">>, <<"0", "0">>, <<"3", "2">>}

\* month words with the month they name: the twelve abbreviations in lower
\* case, upper case and capitalized, and (num 0) two words that name no
\* English month
MonthWords ==
    UNION {{[text |-> MonthsShort[i], num |-> i],
            [text |-> toUpperCase(MonthsShort[i]), num |-> i],
            [text |-> Capitalize(MonthsShort[i]), num |-> i]} : i \in 1..12}
    \cup {[text |-> <<"g", "e", "n">>, num |-> 0], [text |-> <<"m", "a", "g">>, num |-> 0]}

YearTexts == {<<"2", "0", "2", "4">>, <<"2", "0", "2", "5">>}

\* the time ranges, with the text between the two times
TimeRanges == {[start |-> <<"1", "7", ":", "0", "0">>, dash |-> <<" ", "-", " ">>, end |-> <<"1", "8", ":", "3", "0">>],
               [start |-> <<"0", "9", ":", "0", "0">>, dash |-> <<"-">>, end |-> <<"1", "0", ":", "1", "5">>]}

\* what follows the time range: name is the zone between the parentheses of a
\* well-formed suffix (NULL when the suffix is absent or malformed), known
\* tells whether the time zone database has it
TzSuffixes == {[text |-> <<" ", "(", "E", "u", "r", "o", "p", "e", "/", "R", "o", "m", "e", ")">>, name |-> s_Rome, known |-> TRUE],
               [text |-> <<" ", "(", "E", "u", "r", "o", "p", "e", "/", "L", "o", "n", "d", "o", "n", ")">>, name |-> s_London, known |-> TRUE],
               [text |-> <<" ", "(", "U", "T", "C", ")">>, name |-> UTC, known |-> TRUE],
               [text |-> <<" ", "(", "M", "a", "r", "s", "/", "P", "h", "o", "b", "o", "s", ")">>, name |-> s_Mars, known |-> FALSE],
               [text |-> <<>>, name |-> NULL, known |-> FALSE],
               [text |-> <<" ", "(", ")">>, name |-> NULL, known |-> FALSE],
               [text |-> <<" ", "(", "E", "u", "r", "o", "p", "e", "/", "R", "o", "m", "e", ")", " ">>, name |-> NULL, known |-> FALSE]}

\* texts of the grammar '<day> <month> <year>,<HH:MM> - <HH:MM> (<zone>)'
GrammarCases ==
    [kind : {"grammar"}, day : DayTexts, mon : MonthWords, year : YearTexts,
     comma : {<<",">>, <<",", " ">>}, range : TimeRanges, tz : TzSuffixes]

\* texts whose time range matches and whose date part is free text
FreeDateCases ==
    [kind : {"free"}, date : {<<"t", "o", "m", "o", "r", "r", "o", "w">>, <<"d", "o", "m", "a", "n", "i", " ", "s", "e", "r", "a">>, <<"S", "u", "n", ",", " ", "3", "0", " ", "n", "o", "v", " ", "2", "0", "2", "5">>},
     range : TimeRanges, tz : TzSuffixes]

\* texts the leading pattern does not match: no comma, a one-digit hour, no
\* end time, dots in the times, an empty date part, no schedule at all
NoMatchCases ==
    [kind : {"nomatch"},
     body : {<<"g", "a", "r", "b", "a", "g", "e">>, <<"3", "0", " ", "n", "o", "v", " ", "2", "0", "2", "5", " ", "1", "7", ":", "0", "0", " ", "-", " ", "1", "8", ":", "3", "0">>, <<"3", "0", " ", "n", "o", "v", " ", "2", "0", "2", "5", ",", " ", "9", ":", "0", "0", " ", "-", " ", "1", "0", ":", "1", "5">>,
             <<"3", "0", " ", "n", "o", "v", " ", "2", "0", "2", "5", ",", " ", "1", "7", ":", "0", "0">>, <<"3", "0", " ", "n", "o", "v", " ", "2", "0", "2", "5", ",", " ", "1", "7", ".", "0", "0", " ", "-", " ", "1", "8", ".", "3", "0">>, <<",", " ", "1", "7", ":", "0", "0", " ", "-", " ", "1", "8", ":", "3", "0">>,
             <<"3", "0", " ", "n", "o", "v", " ", "2", "0", "2", "5", ",", " ", "1", "7", ":", "0", "0", " ", "1", "8", ":", "3", "0">>},
     tz : TzSuffixes]

MissingCases == {[kind |-> "missing", value |-> NULL],
                 [kind |-> "missing", value |-> UNDEFINED],
                 [kind |-> "missing", value |-> <<>>]}

ScheduleCases == GrammarCases \cup FreeDateCases \cup NoMatchCases \cup MissingCases

\* the schedule text of a case
ScheduleText(c) ==
    CASE c.kind = "grammar" ->
           c.day \o << " " >> \o c.mon.text \o << " " >> \o c.year \o c.comma
           \o c.range.start \o c.range.dash \o c.range.end \o c.tz.text
      [] c.kind = "free" ->
           c.date \o <<",", " ">> \o c.range.start \o c.range.dash \o c.range.end
           \o c.tz.text
      [] c.kind = "nomatch" -> c.body \o c.tz.text
      [] OTHER -> c.value

----------------------------------------------------------------------------
(* The service functions applied to one input                              *)

NoRequest == [route |-> "none"]

NoResponse == [status |-> 0]

ServerIdle == request = NoRequest /\ response = NoResponse /\ storeCalls = <<>>

InitSchedule ==
    /\ clock = StartDate
    /\ env = {}
    /\ op = "input"
    /\ \E c \in ScheduleCases : meta = c /\ arg = ScheduleText(c)
    /\ ret = NULL
    /\ ServerIdle

ParseEventDate ==
    /\ op = "input"
    /\ op' = "parseEventDate"
    /\ ret' = parseEventDate(arg)
    /\ UNCHANGED <<clock, env, arg, meta, request, response, storeCalls>>

NextSchedule == ParseEventDate

SpecSchedule == InitSchedule /\ [][NextSchedule]_vars

----------------------------------------------------------------------------
(* Properties of parseEventDate (SpecSchedule)                             *)

Parsed == op = "parseEventDate"

\* the case is a text of the grammar whose day, month and year name a day of
\* the calendar (decided from how the text was written, not by the parser)
NamesCalendarDay(c) ==
    /\ c.kind = "grammar"
    /\ c.mon.num # 0
    /\ toInt(c.day) >= 1
    /\ toInt(c.day) <= daysInMonth(toInt(c.year), c.mon.num)

\* the ISO calendar date a grammar case names
IsoDateOf(c) ==
    c.year \o <<"-">> \o Pad(c.mon.num, 2) \o <<"-">>
    \o (IF Len(c.day) = 1 THEN <<"0">> \o c.day ELSE c.day)

\* C6: for a null or empty schedule text and for every text that the leading
\* '<datepart>, <HH:MM> - <HH:MM>' pattern does not match, also one ending in
\* a parenthesized timezone, parseEventDate returns the all-null shape with
\* timezone 'UTC', which is what it returns for null.
C6_NoMatchIsAllNull ==
    (Parsed /\ meta.kind \in {"missing", "nomatch"}) =>
        /\ ret = [eventDate |-> NULL, startTime |-> NULL, endTime |-> NULL,
                  timezone |-> UTC]
        /\ ret = parseEventDate(NULL)

C6_Witness ==
    /\ Parsed
    /\ meta.kind = "nomatch"
    /\ meta.tz.name = s_Rome
    /\ timezoneMatch(arg) # 0
    /\ ret.eventDate = NULL
    /\ ret.timezone = UTC

\* C7: a text whose time range matches and whose date part is no valid
\* '<day> <month-abbrev> <year>' (unknown month, day out of range, free text)
\* yields the all-null schedule: date, start time and end time null, no
\* instants.
C7_BadDateIsAllNull ==
    (/\ Parsed
     /\ \/ meta.kind = "grammar" /\ ~NamesCalendarDay(meta)
        \/ meta.kind = "free" /\ FirstWhere(meta.date, IsDigit) = 0) =>
        /\ ret.eventDate = NULL
        /\ ret.startTime = NULL
        /\ ret.endTime = NULL
        /\ Falsy(Get(ret, "startDateTime"))
        /\ Falsy(Get(ret, "endDateTime"))

\* C8: the timezone parseEventDate returns is 'UTC' or a zone the time zone
\* database recognizes.
C8_TimezoneUtcOrRecognized ==
    Parsed => (ret.timezone = UTC \/ \E z \in Zones : z.name = ret.timezone)

\* C9: for a well-formed text with a valid date and zone, parseEventDate
\* returns the ISO date of that day, the two times as written and the zone
\* as written; the month abbreviation is read case-insensitively and a day
\* with a leading zero is accepted.
C9_WellFormedParses ==
    (Parsed /\ NamesCalendarDay(meta) /\ meta.tz.known) =>
        /\ ret.eventDate = IsoDateOf(meta)
        /\ ret.startTime = meta.range.start
        /\ ret.endTime = meta.range.end
        /\ ret.timezone = meta.tz.name

C9_Witness ==
    /\ Parsed
    /\ arg = <<"3", "0", " ", "n", "o", "v", " ", "2", "0", "2", "5", ",", " ", "1", "7", ":", "0", "0", " ", "-", " ", "1", "8", ":", "3", "0", " ", "(", "E", "u", "r", "o", "p", "e", "/", "R", "o", "m", "e", ")">>
    /\ ret.eventDate = <<"2", "0", "2", "5", "-", "1", "1", "-", "3", "0">>
    /\ ret.startTime = <<"1", "7", ":", "0", "0">>
    /\ ret.endTime = <<"1", "8", ":", "3", "0">>
    /\ ret.timezone = s_Rome
    /\ ret.startDateTime = <<"2", "0", "2", "5", "-", "1", "1", "-", "3", "0", "T", "1", "6", ":", "0", "0", ":", "0", "0", ".", "0", "0", "0", "Z">>

----------------------------------------------------------------------------
(* ShopifyService.hasCowlendarMetadata and extractCowlendarMetadata        *)

COWLENDAR_METADATA_PREFIX ==
    <<"C", "O", "W", "L", "E", "N", "D", "A", "R", "_", "M", "E", "T", "A", "D", "A", "T", "A", "_", "P", "R", "E", "F", "I", "X">>

CowPrefix == <<"_", "_", "c", "o", "w", "_">>
k_internal_id == <<"_", "_", "c", "o", "w", "_", "i", "n", "t", "e", "r", "n", "a", "l", "_", "i", "d">>
k_integrity == <<"_", "_", "c", "o", "w", "_", "i", "n", "t", "e", "g", "r", "i", "t", "y">>
k_Date == <<"D", "a", "t", "e">>
k_data == <<"d", "a", "t", "a">>

\* process.env.COWLENDAR_METADATA_PREFIX || '__cow_'
metadataPrefix == Or(Env(COWLENDAR_METADATA_PREFIX), CowPrefix)

\* attr.name && attr.name.startsWith(prefix)
HasPrefix(attr) == Truthy(attr.name) /\ startsWith(attr.name, metadataPrefix)

\* hasCowlendarMetadata that looks at the note attributes only
hasCowlendarMetadata_NotesOnly(order) ==
    /\ IsArray(order.note_attributes)
    /\ \E i \in 1..Len(order.note_attributes) : HasPrefix(order.note_attributes[i])

hasCowlendarMetadata(order) ==
    IF /\ IsArray(order.note_attributes)
       /\ Len(order.note_attributes) > 0
       /\ \E i \in 1..Len(order.note_attributes) : HasPrefix(order.note_attributes[i])
    THEN TRUE
    ELSE IF IsArray(order.line_items) /\ Len(order.line_items) > 0
         THEN \E i \in 1..Len(order.line_items) :
                 /\ IsArray(order.line_items[i].properties)
                 /\ \E j \in 1..Len(order.line_items[i].properties) :
                       HasPrefix(order.line_items[i].properties[j])
         ELSE FALSE

NoMetadata == [eventData |-> NULL, internalId |-> NULL, integrity |-> NULL]

\* the body of the forEach callback of processAttributes
processAttribute(metadata, attr) ==
    IF attr.name = k_internal_id THEN [metadata EXCEPT !.internalId = attr.value]
    ELSE IF attr.name = k_integrity THEN [metadata EXCEPT !.integrity = attr.value]
    ELSE IF attr.name = k_Date THEN [metadata EXCEPT !.eventData = attr.value]
    ELSE IF Truthy(attr.name) /\ includes(toLowerCase(attr.name), k_data)
         THEN [metadata EXCEPT !.eventData = attr.value]
         ELSE metadata

RECURSIVE processAttributes(_, _)
processAttributes(metadata, attrs) ==
    IF attrs = <<>> THEN metadata
    ELSE processAttributes(processAttribute(metadata, Head(attrs)), Tail(attrs))

RECURSIVE processLineItems(_, _)
\* order.line_items.forEach(item => ... processAttributes(item.properties))
processLineItems(metadata, items) ==
    IF items = <<>> THEN metadata
    ELSE processLineItems(
             IF IsArray(Head(items).properties) /\ Len(Head(items).properties) > 0
             THEN processAttributes(metadata, Head(items).properties)
             ELSE metadata,
             Tail(items))

\* extractCowlendarMetadata that reads the line items before the note attributes
extractCowlendarMetadata_NotesLast(order) ==
    LET fromItems == IF IsArray(order.line_items) /\ Len(order.line_items) > 0
                     THEN processLineItems(NoMetadata, order.line_items)
                     ELSE NoMetadata
    IN IF IsArray(order.note_attributes) /\ Len(order.note_attributes) > 0
       THEN processAttributes(fromItems, order.note_attributes)
       ELSE fromItems

extractCowlendarMetadata(order) ==
    LET fromNotes == IF IsArray(order.note_attributes) /\ Len(order.note_attributes) > 0
                     THEN processAttributes(NoMetadata, order.note_attributes)
                     ELSE NoMetadata
    IN IF IsArray(order.line_items) /\ Len(order.line_items) > 0
       THEN processLineItems(fromNotes, order.line_items)
       ELSE fromNotes

----------------------------------------------------------------------------
(* Raw orders handed to hasCowlendarMetadata and extractCowlendarMetadata  *)

\* attributes in all: note attributes and line-item properties of one order
MaxAttrs == 3

\* the numbers of line items of an order
ItemCounts == {0, 1, 2}

s_bk == <<"b", "k", "_">>

\* attribute keys, with what each is: cow, it starts with '__cow_'; bk, it
\* starts with 'bk_'; field, the metadata field its recognition rule fills
AttrKeys ==
    {[text |-> k_internal_id, cow |-> TRUE, bk |-> FALSE, field |-> "internalId"],
     [text |-> k_integrity, cow |-> TRUE, bk |-> FALSE, field |-> "integrity"],
     [text |-> k_Date, cow |-> FALSE, bk |-> FALSE, field |-> "eventData"],
     [text |-> <<"D", "a", "t", "a", " ", "e", "v", "e", "n", "t", "o">>, cow |-> FALSE, bk |-> FALSE, field |-> "eventData"],
     [text |-> <<"_", "_", "c", "o", "w", "_", "x">>, cow |-> TRUE, bk |-> FALSE, field |-> "none"],
     [text |-> <<"x", "_", "_", "c", "o", "w", "_", "d", "a", "t", "e">>, cow |-> FALSE, bk |-> FALSE, field |-> "none"],
     [text |-> <<"b", "k", "_", "s", "l", "o", "t">>, cow |-> FALSE, bk |-> TRUE, field |-> "none"]}

\* the settings of COWLENDAR_METADATA_PREFIX: unset, empty, 'bk_'
PrefixSettings == {{}, {[name |-> COWLENDAR_METADATA_PREFIX, value |-> <<>>]},
                   {[name |-> COWLENDAR_METADATA_PREFIX, value |-> s_bk]}}

SeqsUpTo(S, n) == UNION {[1..k -> S] : k \in 0..n}

\* the shapes of an order: the keys of its attributes in scan order, the
\* container of each (0 the note attributes, i the i-th line item), and
\* whether a container without attributes is null rather than empty
OrderShapes ==
    {sh \in [keys : SeqsUpTo(AttrKeys, MaxAttrs), items : ItemCounts,
             place : SeqsUpTo(0..Max(ItemCounts), MaxAttrs), nulls : BOOLEAN] :
        /\ Len(sh.place) = Len(sh.keys)
        /\ \A i \in 1..Len(sh.place) : sh.place[i] <= sh.items
        /\ \A i \in 1..(Len(sh.place) - 1) : sh.place[i] <= sh.place[i + 1]}

\* the value of the i-th attribute of an order: every attribute has its own
AttrValue(i) == <<"v", Digits[i + 1]>>

RECURSIVE SelectIdx(_, _, _)
\* the indices i..Len(place) whose container is c, in order
SelectIdx(place, c, i) ==
    IF i > Len(place) THEN <<>>
    ELSE (IF place[i] = c THEN <<i>> ELSE <<>>) \o SelectIdx(place, c, i + 1)

\* the attribute list of container c of a shape
Container(sh, c) ==
    LET idx == SelectIdx(sh.place, c, 1)
    IN IF idx = <<>> /\ sh.nulls THEN NullArray
       ELSE [n \in 1..Len(idx) |-> [name |-> sh.keys[idx[n]].text,
                                    value |-> AttrValue(idx[n])]]

s_Workshop == <<"W", "o", "r", "k", "s", "h", "o", "p">>

\* the raw order of a shape
OrderOf(sh) ==
    [id |-> 1,
     note_attributes |-> Container(sh, 0),
     line_items |-> IF sh.items = 0 /\ sh.nulls THEN NullArray
                    ELSE [i \in 1..sh.items |->
                             [name |-> s_Workshop, vendor |-> NULL, product_id |-> 0,
                              properties |-> Container(sh, i)]],
     customer |-> NullObject,
     financial_status |-> <<"p", "a", "i", "d">>]

InitOrder ==
    /\ clock = StartDate
    /\ env \in PrefixSettings
    /\ op = "input"
    /\ \E sh \in OrderShapes : meta = sh /\ arg = OrderOf(sh)
    /\ ret = NULL
    /\ ServerIdle

HasCowlendarMetadata ==
    /\ op = "input"
    /\ op' = "hasCowlendarMetadata"
    /\ ret' = hasCowlendarMetadata(arg)
    /\ UNCHANGED <<clock, env, arg, meta, request, response, storeCalls>>

ExtractCowlendarMetadata ==
    /\ op = "input"
    /\ op' = "extractCowlendarMetadata"
    /\ ret' = extractCowlendarMetadata(arg)
    /\ UNCHANGED <<clock, env, arg, meta, request, response, storeCalls>>

NextOrder == HasCowlendarMetadata \/ ExtractCowlendarMetadata

SpecOrder == InitOrder /\ [][NextOrder]_vars

----------------------------------------------------------------------------
(* Properties of hasCowlendarMetadata and extractCowlendarMetadata         *)

\* the configured prefix is 'bk_' (unset and empty both mean '__cow_')
PrefixIsBk == \E e \in env : e.value = s_bk

\* the key starts with the configured prefix, by how the key was chosen
KeyHasConfiguredPrefix(k) == IF PrefixIsBk THEN k.bk ELSE k.cow

\* C3: hasCowlendarMetadata(order) is true if and only if a note attribute or
\* a property of any line item has a key that starts with the configured
\* prefix (default '__cow_'), whether or not the order has note attributes
\* or line items.
C3_QualifiesIffPrefixedKey ==
    op = "hasCowlendarMetadata" =>
        (ret <=> \E i \in 1..Len(meta.keys) : KeyHasConfiguredPrefix(meta.keys[i]))

C3_Witness ==
    /\ op = "hasCowlendarMetadata"
    /\ ret = TRUE
    /\ meta.items = 2
    /\ Len(meta.keys) = 3
    /\ meta.place = <<0, 1, 2>>
    /\ \A i \in 1..2 : ~KeyHasConfiguredPrefix(meta.keys[i])
    /\ KeyHasConfiguredPrefix(meta.keys[3])

\* the value of the last attribute, in scan order, whose key fills the field
LastValueFor(field) ==
    LET idx == {i \in 1..Len(meta.keys) : meta.keys[i].field = field}
    IN IF idx = {} THEN NULL ELSE AttrValue(Max(idx))

\* C5: extractCowlendarMetadata sets each of its three fields to the value of
\* the last attribute, scanning the note attributes and then the properties
\* of each line item in order, whose key matches the field's rule; a field
\* no attribute matches is null.
C5_LastMatchWins ==
    op = "extractCowlendarMetadata" =>
        /\ ret.internalId = LastValueFor("internalId")
        /\ ret.integrity = LastValueFor("integrity")
        /\ ret.eventData = LastValueFor("eventData")

C5_Witness ==
    /\ op = "extractCowlendarMetadata"
    /\ Len(meta.keys) = 3
    /\ meta.place = <<0, 0, 1>>
    /\ meta.keys[1].text = <<"D", "a", "t", "a", " ", "e", "v", "e", "n", "t", "o">>
    /\ meta.keys[2].text = k_internal_id
    /\ meta.keys[3].text = k_Date
    /\ ret = [eventData |-> AttrValue(3), internalId |-> AttrValue(2), integrity |-> NULL]

----------------------------------------------------------------------------
(* More of JavaScript's strings                                            *)

RECURSIVE Split(_, _)
\* String.prototype.split on a one-character separator
Split(s, c) ==
    LET at == {i \in 1..Len(s) : s[i] = c}
    IN IF at = {} THEN <<s>>
       ELSE <<SubSeq(s, 1, Min(at) - 1)>> \o Split(Drop(s, Min(at)), c)

\* String.prototype.trim
Trim(s) ==
    LET solid == {i \in 1..Len(s) : ~IsSpace(s[i])}
    IN IF solid = {} THEN <<>> ELSE SubSeq(s, Min(solid), Max(solid))

Code(c) == IndexIn(Ascii, c)

RECURSIVE StrLess(_, _)
\* a < b for two strings: by the code of the first character that differs
StrLess(a, b) ==
    IF b = <<>> THEN FALSE
    ELSE IF a = <<>> THEN TRUE
    ELSE IF Head(a) # Head(b) THEN Code(Head(a)) < Code(Head(b))
    ELSE StrLess(Tail(a), Tail(b))

\* a <= b, where b is a string and a a string or null (null converts to the
\* number 0 and the string to NaN: the comparison is false)
JsLessEq(a, b) == a # NULL /\ a # UNDEFINED /\ (a = b \/ StrLess(a, b))

\* a >= b, the same way
JsGreaterEq(a, b) == a # NULL /\ a # UNDEFINED /\ (a = b \/ StrLess(b, a))

\* parseInt of a string of decimal digits
parseInt(v) == toInt(v)

----------------------------------------------------------------------------
(* The Shopify store behind the API: orders and products                   *)

s_Llamas == <<"L", "l", "a", "m", "a", "s">>
s_llamas == <<"l", "l", "a", "m", "a", "s">>
s_Other == <<"O", "t", "h", "e", "r">>
s_other == <<"o", "t", "h", "e", "r">>
s_Studio == <<"S", "t", "u", "d", "i", "o", " ", "M", "a", "r", "t", "a">>
s_host == <<"h", "o", "s", "t">>
s_Host == <<"H", "o", "s", "t">>
s_custom == <<"c", "u", "s", "t", "o", "m">>
s_paid == <<"p", "a", "i", "d">>
s_pending == <<"p", "e", "n", "d", "i", "n", "g">>
mailA == <<"a", "@", "x", ".", "i", "t">>
mailB == <<"b", "@", "x", ".", "i", "t">>
d_1130 == <<"2", "0", "2", "5", "-", "1", "1", "-", "3", "0">>
d_1201 == <<"2", "0", "2", "5", "-", "1", "2", "-", "0", "1">>
text_1130 == <<"3", "0", " ", "n", "o", "v", " ", "2", "0", "2", "5", ",", " ", "1", "7", ":", "0", "0", " ", "-", " ", "1", "8", ":", "3", "0", " ", "(", "E", "u", "r", "o", "p", "e", "/", "R", "o", "m", "e", ")">>
text_1201 == <<"0", "1", " ", "D", "e", "c", " ", "2", "0", "2", "5", ",", " ", "0", "9", ":", "0", "0", " ", "-", " ", "1", "0", ":", "1", "5", " ", "(", "E", "u", "r", "o", "p", "e", "/", "R", "o", "m", "e", ")">>
text_bad == <<"3", "1", " ", "n", "o", "v", " ", "2", "0", "2", "5", ",", " ", "1", "7", ":", "0", "0", " ", "-", " ", "1", "8", ":", "3", "0", " ", "(", "E", "u", "r", "o", "p", "e", "/", "R", "o", "m", "e", ")">>

s_CasaBlu == <<"C", "a", "s", "a", " ", "B", "l", "u">>

\* the metafields a product may have, with the host a reader of them finds
MetafieldOptions ==
    << [fields |-> <<>>, host |-> NULL],
       [fields |-> <<[namespace |-> s_custom, key |-> s_host, value |-> s_Llamas]>>,
        host |-> s_Llamas],
       [fields |-> <<[namespace |-> <<"s", "e", "o">>, key |-> <<"t", "i", "t", "l", "e">>, value |-> <<"x">>],
                     [namespace |-> <<"m", "y", "_", "f", "i", "e", "l", "d", "s">>, key |-> <<"H", "O", "S", "T">>, value |-> s_CasaBlu]>>,
        host |-> s_CasaBlu],
       [fields |-> <<[namespace |-> s_custom, key |-> <<"h", "o", "s", "t", "e", "d", "_", "b", "y">>, value |-> s_Other]>>,
        host |-> NULL] >>

\* the tags a product may have, with the value of its 'host:<value>' tag
TagOptions ==
    << [text |-> <<>>, host |-> NULL],
       [text |-> <<"e", "v", "e", "n", "t">>, host |-> NULL],
       [text |-> <<"h", "o", "s", "t", ":", "O", "t", "h", "e", "r">>, host |-> s_Other],
       [text |-> <<"e", "v", "e", "n", "t", ",", " ", "h", "o", "s", "t", ":", " ", "O", "t", "h", "e", "r", " ">>, host |-> s_Other],
       [text |-> <<"H", "O", "S", "T", ":", "O", "t", "h", "e", "r">>, host |-> s_Other],
       [text |-> <<"h", "o", "s", "t", ":", "C", "a", "s", "a", ":", "B", "l", "u">>, host |-> <<"C", "a", "s", "a", ":", "B", "l", "u">>],
       [text |-> <<"g", "h", "o", "s", "t", ":", "L", "l", "a", "m", "a", "s">>, host |-> NULL] >>

FailOptions == <<"none", "metafields", "product">>

\* a product for every choice of metafields, tags and failing request
ProductVariants ==
    {[product |-> [id |-> 1000 + 100 * m + 10 * t + f,
                   fails |-> FailOptions[f],
                   tags |-> TagOptions[t].text,
                   metafields |-> MetafieldOptions[m].fields],
      fromMetafields |-> MetafieldOptions[m].host,
      fromTags |-> TagOptions[t].host] :
        m \in 1..Len(MetafieldOptions), t \in 1..Len(TagOptions), f \in 1..Len(FailOptions)}

\* the products of the store: their metafields and tags; fails names the
\* request of a lookup that ends in an error ("metafields" for
\* GET /products/<id>/metafields.json, "product" for GET /products/<id>.json,
\* "none" when both answer). A line item without a product has the falsy
\* product id 0.
Products ==
    {[id |-> 101, fails |-> "none", tags |-> <<>>,
      metafields |-> <<[namespace |-> s_custom, key |-> s_host, value |-> s_Llamas]>>],
     [id |-> 102, fails |-> "none", tags |-> <<"e", "v", "e", "n", "t", ",", " ", "h", "o", "s", "t", ":", " ", "O", "t", "h", "e", "r">>,
      metafields |-> <<[namespace |-> <<"s", "e", "o">>, key |-> <<"t", "i", "t", "l", "e">>, value |-> <<"x">>]>>],
     [id |-> 103, fails |-> "none", tags |-> <<>>,
      metafields |-> <<[namespace |-> <<"m", "y", "_", "f", "i", "e", "l", "d", "s">>, key |-> s_Host, value |-> s_llamas]>>],
     [id |-> 104, fails |-> "none", tags |-> <<"e", "v", "e", "n", "t">>, metafields |-> <<>>],
     [id |-> 105, fails |-> "metafields", tags |-> <<>>, metafields |-> <<>>]}
    \cup {v.product : v \in ProductVariants}

Customer(first, last, email) ==
    [first_name |-> first, last_name |-> last, email |-> email, phone |-> NULL]

Item(name, vendor, product, properties) ==
    [name |-> name, vendor |-> vendor, product_id |-> product, properties |-> properties]

Attr(name, value) == [name |-> name, value |-> value]

\* the orders of the store, newest first
StoreOrders ==
    << [id |-> 1, financial_status |-> s_paid,
        customer |-> Customer(<<"A", "d", "a">>, <<"R", "o", "s", "s", "i">>, mailA),
        note_attributes |-> <<Attr(k_Date, text_1130), Attr(k_internal_id, <<"a", "b", "c", "-", "1", "2", "3">>)>>,
        line_items |-> <<Item(<<"L", "l", "a", "m", "a", " ", "w", "a", "l", "k">>, s_Llamas, 101, <<>>)>>],
       [id |-> 2, financial_status |-> s_pending,
        customer |-> Customer(<<"B", "o">>, <<"B", "i", "a", "n", "c", "h", "i">>, mailB),
        note_attributes |-> <<>>,
        line_items |-> <<Item(<<"P", "o", "t", "t", "e", "r", "y">>, s_Other, 102,
                              <<Attr(k_Date, text_1201), Attr(k_integrity, <<"f", "0", "0">>)>>)>>],
       [id |-> 3, financial_status |-> s_paid,
        customer |-> Customer(<<"B", "o">>, <<"B", "i", "a", "n", "c", "h", "i">>, mailB),
        note_attributes |-> <<Attr(<<"g", "i", "f", "t", " ", "n", "o", "t", "e">>, <<"c", "i", "a", "o">>)>>,
        line_items |-> <<Item(<<"M", "u", "g">>, s_Other, 102, <<>>)>>],
       [id |-> 4, financial_status |-> s_paid,
        customer |-> NullObject,
        note_attributes |-> <<Attr(<<"_", "_", "c", "o", "w", "_", "x">>, <<"1">>)>>,
        line_items |-> <<Item(<<"T", "a", "s", "t", "i", "n", "g">>, NULL, 104, NullArray)>>],
       [id |-> 5, financial_status |-> s_paid,
        customer |-> Customer(<<"A", "d", "a">>, <<"R", "o", "s", "s", "i">>, mailA),
        note_attributes |-> <<Attr(k_internal_id, <<"x", "y", "z", "-", "9">>), Attr(k_Date, text_bad)>>,
        line_items |-> <<Item(<<"L", "l", "a", "m", "a", " ", "t", "r", "e", "k">>, s_Llamas, 105, <<>>)>>],
       [id |-> 6, financial_status |-> s_paid,
        customer |-> Customer(<<"C", "y">>, <<"V", "e", "r", "d", "i">>, <<"c", "@", "x", ".", "i", "t">>),
        note_attributes |-> <<Attr(k_internal_id, <<"a", "b", "c", "-", "1", "2", "3">>)>>,
        line_items |-> <<Item(<<"Y", "o", "g", "a">>, s_Studio, 103, <<Attr(k_Date, text_1130)>>),
                         Item(<<"M", "a", "t">>, s_Other, 0, <<>>)>>],
       [id |-> 7, financial_status |-> s_pending,
        customer |-> NullObject,
        note_attributes |-> NullArray,
        line_items |-> NullArray] >>

\* the order ids a caller asks for, as they stand in a path or a query:
\* those of the store and one it does not have
OrderIds == {<<Digits[i + 1]>> : i \in 1..Len(StoreOrders)} \cup {<<"9", "9">>}

FirstN(seq, n) == IF Len(seq) <= n THEN seq ELSE SubSeq(seq, 1, n)

\* GET /orders.json of the store: the orders of the customer with that
\* email (all orders when none is given), newest first, up to the limit
StoreGetOrders(params) ==
    LET Mine(o) == \/ Get(params, "email") = UNDEFINED
                   \/ o.customer # NullObject /\ o.customer.email = params.email
    IN FirstN(SelectSeq(StoreOrders, Mine), params.limit)

StoreHasOrder(id) == \E i \in 1..Len(StoreOrders) : StoreOrders[i].id = id

StoreOrder(id) == StoreOrders[CHOOSE i \in 1..Len(StoreOrders) : StoreOrders[i].id = id]

----------------------------------------------------------------------------
(* ShopifyService: the host and vendor of an order, parseOrderWithCowlendar *)

\* the metafield that names the host
IsHostMetafield(field) ==
    /\ Truthy(field.key)
    /\ \/ toLowerCase(field.key) = s_host
       \/ field.key = s_Host
       \/ field.namespace = s_custom /\ field.key = s_host

IsHostTag(tag) == startsWith(toLowerCase(Trim(tag)), <<"h", "o", "s", "t", ":">>)

\* lines 337-350: the product itself is fetched and its tags are searched
\* for the first one that starts with 'host:'
HostFromTags(product, tags) ==
    IF product.fails = "product" THEN NULL
    ELSE IF Truthy(product.tags) /\ tags # <<>>
         THEN Trim(Split(tags[1], ":")[2])
         ELSE NULL

\* lines 324-334: the first host metafield, if there is one, gives the host
HostFromMetafields(product, fields) ==
    IF fields # <<>> THEN fields[1].value
    ELSE HostFromTags(product, SelectSeq(Split(product.tags, ","), IsHostTag))

\* lines 318-354 for a product the store has
HostOfProduct(product) ==
    IF product.fails = "metafields" THEN NULL
    ELSE HostFromMetafields(product, SelectSeq(product.metafields, IsHostMetafield))

getProductHost(productId) ==
    IF ~\E p \in Products : p.id = productId THEN NULL
    ELSE HostOfProduct(CHOOSE p \in Products : p.id = productId)

extractHostFromOrder(order) ==
    IF ~IsArray(order.line_items) \/ Len(order.line_items) = 0 THEN NULL
    ELSE IF order.line_items[1].product_id = 0 THEN NULL
         ELSE getProductHost(order.line_items[1].product_id)

extractVendorFromOrder(order) ==
    IF ~IsArray(order.line_items) \/ Len(order.line_items) = 0 THEN NULL
    ELSE Or(order.line_items[1].vendor, NULL)

s_UnknownEvent == <<"U", "n", "k", "n", "o", "w", "n", " ", "E", "v", "e", "n", "t">>

extractEventName(order) ==
    IF ~IsArray(order.line_items) \/ Len(order.line_items) = 0 THEN s_UnknownEvent
    ELSE Or(order.line_items[1].name, s_UnknownEvent)

\* order.customer?.field || ''
CustomerField(order, field) ==
    IF order.customer = NullObject THEN <<>> ELSE Or(order.customer[field], <<>>)

\* ParsedOrder whose provider prefers the vendor to the host
ParsedOrder_VendorFirst(order, cowlendarData, eventDetails, host, vendor) ==
    [shopifyOrderId |-> order.id,
     customer |-> [firstName |-> CustomerField(order, "first_name"),
                   lastName |-> CustomerField(order, "last_name"),
                   email |-> CustomerField(order, "email"),
                   phone |-> CustomerField(order, "phone")],
     eventName |-> extractEventName(order),
     host |-> Or(host, vendor),
     vendor |-> vendor,
     provider |-> Or(vendor, host),
     eventDate |-> eventDetails.eventDate,
     startTime |-> eventDetails.startTime,
     endTime |-> eventDetails.endTime,
     timezone |-> eventDetails.timezone,
     cowlendarId |-> cowlendarData.internalId,
     cowlendarIntegrity |-> cowlendarData.integrity,
     financialStatus |-> order.financial_status,
     lineItems |-> <<>>]

\* the object parseOrderWithCowlendar returns (lines 129-159)
ParsedOrder(order, cowlendarData, eventDetails, host, vendor) ==
    [shopifyOrderId |-> order.id,
     customer |-> [firstName |-> CustomerField(order, "first_name"),
                   lastName |-> CustomerField(order, "last_name"),
                   email |-> CustomerField(order, "email"),
                   phone |-> CustomerField(order, "phone")],
     eventName |-> extractEventName(order),
     host |-> Or(host, vendor),
     vendor |-> vendor,
     provider |-> Or(host, vendor),
     eventDate |-> eventDetails.eventDate,
     startTime |-> eventDetails.startTime,
     endTime |-> eventDetails.endTime,
     timezone |-> eventDetails.timezone,
     cowlendarId |-> cowlendarData.internalId,
     cowlendarIntegrity |-> cowlendarData.integrity,
     financialStatus |-> order.financial_status,
     lineItems |-> IF IsArray(order.line_items)
                   THEN [i \in 1..Len(order.line_items) |->
                            [name |-> order.line_items[i].name,
                             vendor |-> order.line_items[i].vendor,
                             productId |-> order.line_items[i].product_id]]
                   ELSE <<>>]

\* lines 120-121: the metadata of the order and the event details parsed
\* from its eventData
ParsedOrderOf(order, cowlendarData, host, vendor) ==
    ParsedOrder(order, cowlendarData, parseEventDate(cowlendarData.eventData), host, vendor)

parseOrderWithCowlendar(order) ==
    ParsedOrderOf(order, extractCowlendarMetadata(order),
                  extractHostFromOrder(order), extractVendorFromOrder(order))

MapSeq(seq, F(_)) == [i \in 1..Len(seq) |-> F(seq[i])]

\* getEventOrders that leaves out the orders without a provider
getEventOrders_DropsUnattributed(params) ==
    LET Attributed(order) == Truthy(order.provider)
    IN SelectSeq(MapSeq(SelectSeq(StoreGetOrders(params), hasCowlendarMetadata),
                        parseOrderWithCowlendar),
                 Attributed)

\* getEventOrders(params) without a host filter
getEventOrders(params) ==
    MapSeq(SelectSeq(StoreGetOrders(params), hasCowlendarMetadata),
           parseOrderWithCowlendar)

getOrdersByHost(hostName, params) ==
    LET Mine(order) == Truthy(order.host) /\ toLowerCase(order.host) = toLowerCase(hostName)
    IN SelectSeq(getEventOrders(params), Mine)

\* getOrdersByProvider that looks at the vendor of the first line item only
getOrdersByProvider_FirstVendor(providerName, params) ==
    LET Mine(order) ==
            \/ Truthy(order.host) /\ toLowerCase(order.host) = toLowerCase(providerName)
            \/ /\ Len(order.lineItems) > 0
               /\ Truthy(order.lineItems[1].vendor)
               /\ toLowerCase(order.lineItems[1].vendor) = toLowerCase(providerName)
    IN SelectSeq(getEventOrders(params), Mine)

getOrdersByProvider(providerName, params) ==
    LET Mine(order) ==
            \/ Truthy(order.host) /\ toLowerCase(order.host) = toLowerCase(providerName)
            \/ \E i \in 1..Len(order.lineItems) :
                  /\ Truthy(order.lineItems[i].vendor)
                  /\ toLowerCase(order.lineItems[i].vendor) = toLowerCase(providerName)
    IN SelectSeq(getEventOrders(params), Mine)

----------------------------------------------------------------------------
(* Orders handed to getProductHost and parseOrderWithCowlendar             *)

\* the line item without a product
NoProduct ==
    [product |-> [id |-> 0, fails |-> "none", tags |-> <<>>, metafields |-> <<>>],
     fromMetafields |-> NULL, fromTags |-> NULL]

\* how an order is made: the product and the vendor of its first line item,
\* and how many line items it has
ProviderCases ==
    {[v |-> v, vendor |-> w, items |-> n] :
        v \in ProductVariants \cup {NoProduct},
        w \in {NULL, s_Other, s_Studio},
        n \in {0, 1, 2}}

ProviderOrder(c) ==
    [id |-> 50, financial_status |-> s_paid,
     customer |-> Customer(<<"A", "d", "a">>, <<"R", "o", "s", "s", "i">>, mailA),
     note_attributes |-> <<Attr(k_Date, text_1130)>>,
     line_items |-> IF c.items = 0 THEN <<>>
                    ELSE <<Item(s_Workshop, c.vendor, c.v.product.id, <<>>)>>
                         \o (IF c.items = 2 THEN <<Item(<<"M", "a", "t">>, s_Llamas, 101, <<>>)>>
                             ELSE <<>>)]

InitProvider ==
    /\ clock = StartDate
    /\ env = {}
    /\ op = "input"
    /\ \E c \in ProviderCases : meta = c /\ arg = ProviderOrder(c)
    /\ ret = NULL
    /\ ServerIdle

\* getProductHost of the product of the first line item
GetProductHost ==
    /\ op = "input"
    /\ meta.items > 0
    /\ meta.v.product.id # 0
    /\ op' = "getProductHost"
    /\ ret' = getProductHost(arg.line_items[1].product_id)
    /\ UNCHANGED <<clock, env, arg, meta, request, response, storeCalls>>

ParseOrderWithCowlendar ==
    /\ op = "input"
    /\ op' = "parseOrderWithCowlendar"
    /\ ret' = parseOrderWithCowlendar(arg)
    /\ UNCHANGED <<clock, env, arg, meta, request, response, storeCalls>>

NextProvider == GetProductHost \/ ParseOrderWithCowlendar

SpecProvider == InitProvider /\ [][NextProvider]_vars

\* the host found for the first line item's product; null without a line
\* item or a product
FoundHost ==
    IF meta.items = 0 \/ meta.v.product.id = 0 THEN NULL
    ELSE getProductHost(meta.v.product.id)

\* the vendor of the first line item as the order was made
FirstVendor == IF meta.items = 0 THEN NULL ELSE meta.vendor

\* C11: the provider of a parsed order is the host found for the product of
\* its first line item when there is one, even if the vendor differs, else
\* the vendor of the first line item when present, else null
C11_ProviderIsHostElseVendor ==
    op = "parseOrderWithCowlendar" =>
        ret.provider = (IF FoundHost # NULL THEN FoundHost
                        ELSE IF FirstVendor # NULL THEN FirstVendor
                        ELSE NULL)

C11_Witness ==
    /\ op = "parseOrderWithCowlendar"
    /\ meta.items = 1
    /\ meta.v.fromMetafields = s_Llamas
    /\ meta.v.product.fails = "none"
    /\ meta.vendor = s_Other
    /\ ret.provider = s_Llamas
    /\ ret.vendor = s_Other

\* the host the product's data names: the value of the host metafield, else
\* the whole value after 'host:' of the tag; null when a request failed first
NamedHost(v) ==
    IF v.product.fails = "metafields" THEN NULL
    ELSE IF v.fromMetafields # NULL THEN v.fromMetafields
    ELSE IF v.product.fails = "product" THEN NULL
    ELSE v.fromTags

\* C13: getProductHost gives the value of the host metafield, else the whole
\* trimmed value after 'host:' of a tag (also a value with a colon in it),
\* else null
C13_HostFromMetafieldElseTag ==
    op = "getProductHost" => ret = NamedHost(meta.v)

----------------------------------------------------------------------------
(* middleware/auth.js                                                      *)

API_KEY == <<"A", "P", "I", "_", "K", "E", "Y">>
NODE_ENV == <<"N", "O", "D", "E", "_", "E", "N", "V">>
HOST_API_KEY_ == <<"H", "O", "S", "T", "_", "A", "P", "I", "_", "K", "E", "Y", "_">>
s_development == <<"d", "e", "v", "e", "l", "o", "p", "m", "e", "n", "t">>

\* getHostApiKeys that keeps the case of the host names
getHostApiKeys_KeepsCase ==
    {[host |-> Drop(e.name, Len(HOST_API_KEY_)), key |-> e.value] :
        e \in {e \in env : startsWith(e.name, HOST_API_KEY_)}}

\* getHostApiKeys: the [host, key] pairs of the HOST_API_KEY_* variables
getHostApiKeys ==
    {[host |-> toLowerCase(Drop(e.name, Len(HOST_API_KEY_))), key |-> e.value] :
        e \in {e \in env : startsWith(e.name, HOST_API_KEY_)}}

Respond(status, error) ==
    [status |-> status, success |-> FALSE, error |-> error, kind |-> "none", data |-> <<>>]

Success(kind, data) ==
    [status |-> 200, success |-> TRUE, error |-> "", kind |-> kind, data |-> data]

\* authenticateApiKey: next tells whether the request is passed on; if so as
\* and host are req.authenticatedAs and req.authenticatedHost, if not
\* response is the answer
authenticateApiKey(req) ==
    LET apiKey == Or(req.headerKey, req.queryKey)
        expectedApiKey == Env(API_KEY)
        hostKeys == getHostApiKeys
        unset == Falsy(expectedApiKey) /\ hostKeys = {}
        Pass(as, host) == [next |-> TRUE, as |-> as, host |-> host,
                           response |-> Respond(0, "")]
        Stop(status, error) == [next |-> FALSE, as |-> "undefined", host |-> UNDEFINED,
                                response |-> Respond(status, error)]
    IN IF Env(NODE_ENV) = s_development /\ unset THEN Pass("undefined", UNDEFINED)
       ELSE IF unset THEN Stop(500, "Server configuration error")
       ELSE IF Falsy(apiKey) THEN Stop(401, "Authentication required")
       ELSE IF Truthy(expectedApiKey) /\ apiKey = expectedApiKey
            THEN Pass("global", UNDEFINED)
       ELSE IF \E h \in hostKeys : h.key = apiKey
            THEN Pass("host", (CHOOSE h \in hostKeys : h.key = apiKey).host)
       ELSE Stop(403, "Invalid API key")

\* validateHostAccess that lets every authenticated host through
validateHostAccess_AnyHost(auth, hostName) ==
    IF auth.as \in {"global", "host"} THEN [next |-> TRUE, response |-> Respond(0, "")]
    ELSE [next |-> FALSE, response |-> Respond(403, "Access denied")]

\* validateHostAccess, given what authenticateApiKey left on the request
validateHostAccess(auth, hostName) ==
    IF auth.as = "global" THEN [next |-> TRUE, response |-> Respond(0, "")]
    ELSE IF auth.as = "host" /\ auth.host = toLowerCase(hostName)
         THEN [next |-> TRUE, response |-> Respond(0, "")]
         ELSE [next |-> FALSE, response |-> Respond(403, "Access denied")]

----------------------------------------------------------------------------
(* The route handlers                                                      *)

s_any == <<"a", "n", "y">>
s_confirmed == <<"c", "o", "n", "f", "i", "r", "m", "e", "d">>

\* the cap GET /api/orders puts on limit
OrdersMaxLimit == 250

\* the default of limit on most routes, and on the events routes
DefaultLimit == 50
EventsDefaultLimit == 100

\* { limit = d } = req.query, then parseInt(limit)
LimitOf(query, d) == IF query.limit = UNDEFINED THEN d ELSE parseInt(query.limit)

\* shopifyParams, with email only when a customer email was given
WithEmail(params, email) ==
    IF Truthy(email)
    THEN [limit |-> params.limit, status |-> params.status, email |-> email]
    ELSE params

FullName(order) == Trim(order.customer.firstName \o <<" ">> \o order.customer.lastName)

BookingStatus(order) == IF order.financialStatus = s_paid THEN s_confirmed ELSE s_pending

\* transformForBookingApp (routes/orders.js)
transformForBookingApp(order) ==
    [booking_id |-> order.shopifyOrderId,
     customer |-> [first_name |-> order.customer.firstName,
                   last_name |-> order.customer.lastName,
                   full_name |-> FullName(order),
                   email |-> order.customer.email,
                   phone |-> order.customer.phone],
     event |-> [name |-> order.eventName,
                date |-> order.eventDate,
                start_time |-> order.startTime,
                end_time |-> order.endTime,
                timezone |-> order.timezone,
                start_datetime |-> Get(order, "startDateTime"),
                end_datetime |-> Get(order, "endDateTime")],
     provider |-> order.provider,
     host |-> order.host,
     vendor |-> order.vendor,
     booking_details |-> [financial_status |-> order.financialStatus,
                          items |-> order.lineItems],
     cowlendar |-> [internal_id |-> order.cowlendarId,
                    integrity |-> order.cowlendarIntegrity],
     status |-> BookingStatus(order)]

\* transformForBookun (routes/bookings.js)
transformForBookun(order) ==
    [booking_id |-> order.shopifyOrderId,
     customer |-> [first_name |-> order.customer.firstName,
                   last_name |-> order.customer.lastName,
                   full_name |-> FullName(order),
                   email |-> order.customer.email,
                   phone |-> order.customer.phone],
     event |-> [name |-> order.eventName,
                host |-> order.host,
                date |-> order.eventDate,
                start_time |-> order.startTime,
                end_time |-> order.endTime,
                timezone |-> order.timezone,
                start_datetime |-> Get(order, "startDateTime"),
                end_datetime |-> Get(order, "endDateTime")],
     booking_details |-> [financial_status |-> order.financialStatus,
                          items |-> order.lineItems],
     cowlendar |-> [internal_id |-> order.cowlendarId,
                    integrity |-> order.cowlendarIntegrity],
     status |-> BookingStatus(order),
     host |-> order.host]

\* the call of getOrders / getOrderById a handler makes
OrdersCall(params) == [fn |-> "getOrders", params |-> params]

OrderCall(id) == [fn |-> "getOrderById", id |-> id]

\* getOrderById succeeds: the store is reachable and has the order
Fetched(req, id) ==
    /\ req.upstream = "up"
    /\ \A i \in 1..Len(id) : IsDigit(id[i])
    /\ StoreHasOrder(toInt(id))

\* response.data.order of GET /orders/<id>.json
FetchedOrder(id) == StoreOrder(toInt(id))

Answer(res, calls) == [response |-> res, calls |-> calls]

\* orders.filter(order => order.eventDate === date), when a date is given
ByEventDate(orders, date) ==
    LET On(order) == order.eventDate = date
    IN IF Truthy(date) THEN SelectSeq(orders, On) ELSE orders

\* orders.filter(order => order.cowlendarId === id), when an id is given
ByCowlendarId(orders, id) ==
    LET Has(order) == order.cowlendarId = id
    IN IF Truthy(id) THEN SelectSeq(orders, Has) ELSE orders

\* orders.filter(order => order.eventDate >= date), when a date is given
ByDateFrom(orders, date) ==
    LET From(order) == JsGreaterEq(order.eventDate, date)
    IN IF Truthy(date) THEN SelectSeq(orders, From) ELSE orders

\* orders.filter(order => order.eventDate <= date), when a date is given
ByDateTo(orders, date) ==
    LET To(order) == JsLessEq(order.eventDate, date)
    IN IF Truthy(date) THEN SelectSeq(orders, To) ELSE orders

\* OrdersListOf that skips the date_to filter when a provider is given
OrdersListOf_ProviderSkipsDateTo(req, shopifyParams) ==
    IF req.upstream # "up"
    THEN Answer(Respond(500, "Failed to fetch orders"), <<OrdersCall(shopifyParams)>>)
    ELSE Answer(Success("list",
                    MapSeq(IF Truthy(req.query.provider)
                           THEN ByDateFrom(ByEventDate(
                                    getOrdersByProvider(req.query.provider, shopifyParams),
                                    req.query.event_date), req.query.date_from)
                           ELSE ByDateTo(ByDateFrom(ByEventDate(
                                    getEventOrders(shopifyParams),
                                    req.query.event_date), req.query.date_from),
                                    req.query.date_to),
                           transformForBookingApp)),
                <<OrdersCall(shopifyParams)>>)

\* lines 50-94 of routes/orders.js: the orders of the provider, or all event
\* orders, filtered by the dates and transformed
OrdersListOf(req, shopifyParams) ==
    IF req.upstream # "up"
    THEN Answer(Respond(500, "Failed to fetch orders"), <<OrdersCall(shopifyParams)>>)
    ELSE Answer(Success("list",
                    MapSeq(ByDateTo(ByDateFrom(ByEventDate(
                               IF Truthy(req.query.provider)
                               THEN getOrdersByProvider(req.query.provider, shopifyParams)
                               ELSE getEventOrders(shopifyParams),
                               req.query.event_date), req.query.date_from), req.query.date_to),
                           transformForBookingApp)),
                <<OrdersCall(shopifyParams)>>)

\* Math.min(parseInt(limit), 250)
LimitNum(limit) == IF limit < OrdersMaxLimit THEN limit ELSE OrdersMaxLimit

\* router.get('/') of routes/orders.js, after authenticateApiKey
OrdersList(req) ==
    OrdersListOf(req, WithEmail([limit |-> LimitNum(LimitOf(req.query, DefaultLimit)),
                                 status |-> s_any],
                                req.query.customer_email))

\* router.get('/:orderId') of routes/orders.js, after authenticateApiKey
OrderById(req) ==
    LET id == req.params.orderId
    IN IF ~Fetched(req, id)
       THEN Answer(Respond(404, "Order not found"), <<OrderCall(id)>>)
       ELSE IF ~hasCowlendarMetadata(FetchedOrder(id))
            THEN Answer(Respond(404, "Order not found"), <<OrderCall(id)>>)
            ELSE Answer(Success("one", <<transformForBookingApp(
                                             parseOrderWithCowlendar(FetchedOrder(id)))>>),
                        <<OrderCall(id)>>)

\* the routes that answer with the bookings of getOrdersByHost or
\* getEventOrders, filtered by an event date and a Cowlendar id
HostOrEventBookings(req, hostName, shopifyParams, date, cowlendarId, error) ==
    IF req.upstream # "up"
    THEN Answer(Respond(500, error), <<OrdersCall(shopifyParams)>>)
    ELSE Answer(Success("list",
                    MapSeq(ByCowlendarId(ByEventDate(
                               IF Truthy(hostName) THEN getOrdersByHost(hostName, shopifyParams)
                               ELSE getEventOrders(shopifyParams),
                               date), cowlendarId),
                           transformForBookun)),
                <<OrdersCall(shopifyParams)>>)

\* router.get('/') of routes/bookings.js, after authenticateApiKey
BookingsList(req) ==
    IF Truthy(req.query.order_id)
    THEN IF ~Fetched(req, req.query.order_id)
         THEN Answer(Respond(500, "Failed to fetch bookings"),
                     <<OrderCall(req.query.order_id)>>)
         ELSE Answer(Success("list", <<transformForBookun(
                         parseOrderWithCowlendar(FetchedOrder(req.query.order_id)))>>),
                     <<OrderCall(req.query.order_id)>>)
    ELSE HostOrEventBookings(req, req.query.host,
             WithEmail([limit |-> LimitOf(req.query, DefaultLimit), status |-> s_any],
                       req.query.customer_email),
             req.query.event_date, req.query.cowlendar_id, "Failed to fetch bookings")

\* router.get('/:id') of routes/bookings.js with id_type 'shopify' (the
\* default): parseOrderWithCowlendar is not awaited, transformForBookun reads
\* customer.firstName of the pending promise and throws
BookingByShopifyId(req) ==
    LET id == req.params.id
    IN IF ~Fetched(req, id)
       THEN Answer(Respond(500, "Failed to fetch booking"), <<OrderCall(id)>>)
       ELSE IF hasCowlendarMetadata(FetchedOrder(id))
            THEN Answer(Respond(500, "Failed to fetch booking"), <<OrderCall(id)>>)
            ELSE Answer(Respond(404, "Booking not found"), <<OrderCall(id)>>)

\* the limit of the search for a Cowlendar id
CowlendarSearchLimit == 250

\* eventOrders.find(order => order.cowlendarId === id), then the answer
FoundBooking(found, calls) ==
    IF found = <<>> THEN Answer(Respond(404, "Booking not found"), calls)
    ELSE Answer(Success("one", <<transformForBookun(found[1])>>), calls)

\* router.get('/:id') of routes/bookings.js with id_type 'cowlendar'
BookingByCowlendarId(req) ==
    LET Has(order) == order.cowlendarId = req.params.id
    IN IF req.upstream # "up"
       THEN Answer(Respond(500, "Failed to fetch booking"),
                   <<OrdersCall([limit |-> CowlendarSearchLimit])>>)
       ELSE FoundBooking(SelectSeq(getEventOrders([limit |-> CowlendarSearchLimit]), Has),
                         <<OrdersCall([limit |-> CowlendarSearchLimit])>>)

\* router.get('/host/:hostName'), after the two middlewares
HostBookings(req) ==
    HostOrEventBookings(req, req.params.hostName,
        WithEmail([limit |-> LimitOf(req.query, DefaultLimit), status |-> s_any],
                  req.query.customer_email),
        req.query.event_date, req.query.cowlendar_id, "Failed to fetch host bookings")

\* router.get('/host/:hostName/customer/:email'), after the two middlewares
HostCustomerBookings(req) ==
    HostOrEventBookings(req, req.params.hostName,
        [email |-> req.params.email, limit |-> LimitOf(req.query, DefaultLimit)],
        UNDEFINED, UNDEFINED, "Failed to fetch host customer bookings")

\* router.get('/host/:hostName/events/:date'), after the two middlewares
HostEventBookings(req) ==
    HostOrEventBookings(req, req.params.hostName,
        [limit |-> LimitOf(req.query, EventsDefaultLimit)],
        req.params.date, UNDEFINED, "Failed to fetch host event bookings")

\* router.get('/customer/:email') of routes/bookings.js
CustomerBookings(req) ==
    HostOrEventBookings(req, UNDEFINED,
        [email |-> req.params.email, limit |-> LimitOf(req.query, DefaultLimit)],
        UNDEFINED, UNDEFINED, "Failed to fetch customer bookings")

\* router.get('/events/:date') of routes/bookings.js
EventBookings(req) ==
    HostOrEventBookings(req, UNDEFINED,
        [limit |-> LimitOf(req.query, EventsDefaultLimit)],
        req.params.date, UNDEFINED, "Failed to fetch event bookings")

s_shopify == <<"s", "h", "o", "p", "i", "f", "y">>
s_cowlendar == <<"c", "o", "w", "l", "e", "n", "d", "a", "r">>

\* router.get('/:id') of routes/bookings.js, after authenticateApiKey
BookingById(req) ==
    LET id_type == IF req.query.id_type = UNDEFINED THEN s_shopify ELSE req.query.id_type
    IN IF id_type = s_shopify THEN BookingByShopifyId(req)
       ELSE IF id_type = s_cowlendar THEN BookingByCowlendarId(req)
       ELSE Answer(Respond(404, "Booking not found"), <<>>)

\* a route: authenticateApiKey, validateHostAccess where the route has it,
\* then the handler
Handle(req, checksHost, Handler(_)) ==
    LET auth == authenticateApiKey(req)
    IN IF ~auth.next THEN Answer(auth.response, <<>>)
       ELSE IF checksHost /\ ~validateHostAccess(auth, req.params.hostName).next
            THEN Answer(validateHostAccess(auth, req.params.hostName).response, <<>>)
            ELSE Handler(req)

----------------------------------------------------------------------------
(* The requests                                                            *)

key_global == <<"k", "e", "y", "-", "g", "l", "o", "b", "a", "l">>
key_llamas == <<"k", "e", "y", "-", "l", "l", "a", "m", "a", "s">>
key_other == <<"k", "e", "y", "-", "o", "t", "h", "e", "r">>
key_wrong == <<"k", "e", "y", "-", "w", "r", "o", "n", "g">>
s_LLAMAS == <<"L", "L", "A", "M", "A", "S">>
s_OTHER == <<"O", "T", "H", "E", "R">>
s_nobody == <<"n", "o", "b", "o", "d", "y">>

\* the configurations of the server: all keys, host keys only, development
\* without keys, production without keys
ServerEnvs ==
    {{[name |-> API_KEY, value |-> key_global],
      [name |-> HOST_API_KEY_ \o s_LLAMAS, value |-> key_llamas],
      [name |-> HOST_API_KEY_ \o s_OTHER, value |-> key_other]},
     {[name |-> HOST_API_KEY_ \o s_LLAMAS, value |-> key_llamas]},
     {[name |-> NODE_ENV, value |-> s_development]},
     {}}

\* the X-API-Key header and the api_key query parameter of a request
Credentials ==
    {[headerKey |-> UNDEFINED, queryKey |-> UNDEFINED],
     [headerKey |-> key_global, queryKey |-> UNDEFINED],
     [headerKey |-> key_llamas, queryKey |-> UNDEFINED],
     [headerKey |-> key_other, queryKey |-> UNDEFINED],
     [headerKey |-> key_wrong, queryKey |-> UNDEFINED],
     [headerKey |-> UNDEFINED, queryKey |-> key_llamas],
     [headerKey |-> key_other, queryKey |-> key_global]}

Upstreams == {"up", "down"}

Emails == {UNDEFINED, mailA}
Dates == {UNDEFINED, d_1130}
Limits == {UNDEFINED, <<"1">>, <<"1", "0", "0", "0">>}
CowlendarIds == {UNDEFINED, <<"a", "b", "c", "-", "1", "2", "3">>}
HostNames == {s_llamas, s_Llamas, s_Other, s_nobody}

Request(route, params, query) ==
    {[route |-> route, headerKey |-> c.headerKey, queryKey |-> c.queryKey,
      upstream |-> u, params |-> params, query |-> query] :
        c \in Credentials, u \in Upstreams}

OrdersListRequests ==
    UNION {Request("GET /api/orders", [none |-> TRUE],
                   [provider |-> p, customer_email |-> e, event_date |-> d,
                    date_from |-> f, date_to |-> t, limit |-> l]) :
             p \in {UNDEFINED, s_llamas, s_Other, s_Studio, s_nobody}, e \in Emails, d \in Dates,
             f \in {UNDEFINED, d_1201}, t \in {UNDEFINED, d_1130}, l \in Limits}

s_providers == <<"p", "r", "o", "v", "i", "d", "e", "r", "s">>

\* the routes of routes/orders.js in the order they are registered (lines 22,
\* 111 and 158), by the path each is registered with and the name of its
\* handler
OrdersRouter ==
    <<[path |-> "/", route |-> "GET /api/orders"],
      [path |-> "/:orderId", route |-> "GET /api/orders/:orderId"],
      [path |-> "/providers", route |-> "GET /api/orders/providers"]>>

\* the path pattern matches the path segment after /api/orders
MatchesPath(path, segment) ==
    IF path = "/" THEN segment = <<>>
    ELSE IF path = "/:orderId" THEN segment # <<>>
    ELSE segment = s_providers

\* the router hands the request to the first registered route that matches
RouteOfOrders(segment) ==
    OrdersRouter[Min({i \in 1..Len(OrdersRouter) : MatchesPath(OrdersRouter[i].path, segment)})].route

OrderByIdRequests ==
    UNION {Request(RouteOfOrders(id), [orderId |-> id], [none |-> TRUE]) :
             id \in OrderIds \cup {s_providers}}

BookingsListRequests ==
    UNION {Request("GET /api/bookings", [none |-> TRUE],
                   [customer_email |-> e, event_date |-> d, cowlendar_id |-> c,
                    host |-> h, limit |-> l, order_id |-> id]) :
             e \in Emails, d \in Dates, c \in CowlendarIds,
             h \in {UNDEFINED, s_llamas, s_Other}, l \in {UNDEFINED, <<"1">>},
             id \in {UNDEFINED, <<"1">>, <<"3">>, <<"9", "9">>}}

BookingByIdRequests ==
    UNION {Request("GET /api/bookings/:id", [id |-> id], [id_type |-> t]) :
             id \in OrderIds \cup {<<"a", "b", "c", "-", "1", "2", "3">>},
             t \in {UNDEFINED, s_shopify, s_cowlendar, s_nobody}}

HostBookingsRequests ==
    UNION {Request("GET /api/bookings/host/:hostName", [hostName |-> h],
                   [customer_email |-> e, event_date |-> d, cowlendar_id |-> c, limit |-> l]) :
             h \in HostNames, e \in Emails, d \in Dates, c \in CowlendarIds,
             l \in Limits}

HostCustomerBookingsRequests ==
    UNION {Request("GET /api/bookings/host/:hostName/customer/:email",
                   [hostName |-> h, email |-> e], [limit |-> l]) :
             h \in HostNames, e \in {mailA, mailB}, l \in {UNDEFINED, <<"1">>}}

HostEventBookingsRequests ==
    UNION {Request("GET /api/bookings/host/:hostName/events/:date",
                   [hostName |-> h, date |-> d], [limit |-> l]) :
             h \in HostNames, d \in {d_1130, d_1201}, l \in {UNDEFINED, <<"1">>}}

CustomerBookingsRequests ==
    UNION {Request("GET /api/bookings/customer/:email", [email |-> e], [limit |-> l]) :
             e \in {mailA, mailB}, l \in Limits}

EventBookingsRequests ==
    UNION {Request("GET /api/bookings/events/:date", [date |-> d], [limit |-> l]) :
             d \in {d_1130, d_1201}, l \in {UNDEFINED, <<"1">>}}

Requests ==
    OrdersListRequests \cup OrderByIdRequests \cup BookingsListRequests
    \cup BookingByIdRequests \cup HostBookingsRequests \cup HostCustomerBookingsRequests
    \cup HostEventBookingsRequests \cup CustomerBookingsRequests \cup EventBookingsRequests

----------------------------------------------------------------------------
(* The server: one request, answered by its route                          *)

Init ==
    /\ clock = StartDate
    /\ env \in ServerEnvs
    /\ request \in Requests
    /\ op = "request"
    /\ response = NoResponse
    /\ storeCalls = <<>>
    /\ arg = NULL
    /\ meta = NULL
    /\ ret = NULL

\* the request is for the route and has no answer yet
Pending(route) == op = "request" /\ request.route = route

\* the answer of the route is sent
Reply(answer) ==
    /\ response' = answer.response
    /\ storeCalls' = answer.calls
    /\ op' = "response"
    /\ UNCHANGED <<clock, env, arg, meta, ret, request>>

GetOrders ==
    /\ Pending("GET /api/orders")
    /\ Reply(Handle(request, FALSE, OrdersList))

GetOrderById ==
    /\ Pending("GET /api/orders/:orderId")
    /\ Reply(Handle(request, FALSE, OrderById))

GetBookings ==
    /\ Pending("GET /api/bookings")
    /\ Reply(Handle(request, FALSE, BookingsList))

GetBookingById ==
    /\ Pending("GET /api/bookings/:id")
    /\ Reply(Handle(request, FALSE, BookingById))

GetHostBookings ==
    /\ Pending("GET /api/bookings/host/:hostName")
    /\ Reply(Handle(request, TRUE, HostBookings))

GetHostCustomerBookings ==
    /\ Pending("GET /api/bookings/host/:hostName/customer/:email")
    /\ Reply(Handle(request, TRUE, HostCustomerBookings))

GetHostEventBookings ==
    /\ Pending("GET /api/bookings/host/:hostName/events/:date")
    /\ Reply(Handle(request, TRUE, HostEventBookings))

GetCustomerBookings ==
    /\ Pending("GET /api/bookings/customer/:email")
    /\ Reply(Handle(request, FALSE, CustomerBookings))

GetEventBookings ==
    /\ Pending("GET /api/bookings/events/:date")
    /\ Reply(Handle(request, FALSE, EventBookings))

Next ==
    \/ GetOrders
    \/ GetOrderById
    \/ GetBookings
    \/ GetBookingById
    \/ GetHostBookings
    \/ GetHostCustomerBookings
    \/ GetHostEventBookings
    \/ GetCustomerBookings
    \/ GetEventBookings

Spec == Init /\ [][Next]_vars

----------------------------------------------------------------------------
(* Properties of the routes                                                *)

Answered == op = "response"

PresentedKey == Or(request.headerKey, request.queryKey)

\* the request presents the configured global key
GlobalKeyed == [name |-> API_KEY, value |-> PresentedKey] \in env

\* the request presents the configured key of host h and not the global key
HostKeyed(h) ==
    /\ ~GlobalKeyed
    /\ [name |-> HOST_API_KEY_ \o toUpperCase(h), value |-> PresentedKey] \in env

ConfiguredHosts == {s_llamas, s_other}

HostRoutes ==
    {"GET /api/bookings/host/:hostName",
     "GET /api/bookings/host/:hostName/customer/:email",
     "GET /api/bookings/host/:hostName/events/:date"}

Bookings == {response.data[i] : i \in 1..Len(response.data)}

\* C1: a request answered with success under the key of host H holds no
\* booking whose host differs, case-insensitively, from H, on every booking
\* query route
C1_HostKeyReadsOwnBookingsOnly ==
    \A h \in ConfiguredHosts :
        (Answered /\ HostKeyed(h) /\ response.success)
            => \A b \in Bookings : toLowerCase(b.host) = h

\* C2: on the host routes a host key of another identity than the requested
\* hostName is answered 403 'Access denied' without a call of the order
\* store; the global key is let through to the store for every hostName
C2_HostMismatchIsDenied ==
    Answered /\ request.route \in HostRoutes =>
        /\ \A h \in ConfiguredHosts :
              HostKeyed(h) /\ h # toLowerCase(request.params.hostName) =>
                  /\ response.status = 403
                  /\ response.error = "Access denied"
                  /\ ~response.success
                  /\ storeCalls = <<>>
        /\ GlobalKeyed => response.status # 403 /\ storeCalls # <<>>

C2_Witness ==
    /\ Answered
    /\ request.route = "GET /api/bookings/host/:hostName/customer/:email"
    /\ HostKeyed(s_llamas)
    /\ request.params.hostName = s_Other
    /\ request.upstream = "up"
    /\ response.status = 403
    /\ storeCalls = <<>>

\* the orders of the store with a key under the Cowlendar prefix among
\* their note attributes or line item properties
QualifyingOrderIds == {1, 2, 4, 5, 6}

\* C4: every booking of a success response comes from an order that
\* qualifies
C4_BookingsComeFromQualifyingOrders ==
    Answered /\ response.success =>
        \A b \in Bookings : b.booking_id \in QualifyingOrderIds

\* C10: a booking whose schedule text parsed to a calendar date exposes the
\* start and end instants as event.start_datetime and event.end_datetime
C10_BookingExposesInstants ==
    Answered /\ response.success =>
        \A b \in Bookings :
            b.event.date \notin {NULL, InvalidDate} =>
                /\ b.event.start_datetime \notin {NULL, UNDEFINED}
                /\ b.event.end_datetime \notin {NULL, UNDEFINED}

\* the request sets none of provider, customer_email, event_date, date_from,
\* date_to and limit
Unfiltered ==
    /\ request.route = "GET /api/orders"
    /\ \A f \in DOMAIN request.query : request.query[f] = UNDEFINED

\* C12: order 4 qualifies and has neither a host nor a vendor; the
\* unfiltered GET /api/orders returns its booking, with provider null
C12_UnattributedOrderIsKept ==
    Answered /\ Unfiltered /\ response.success =>
        \E b \in Bookings : b.booking_id = 4 /\ b.provider = NULL /\ b.vendor = NULL

C12_Witness ==
    /\ Answered
    /\ Unfiltered
    /\ GlobalKeyed
    /\ response.success
    /\ Len(response.data) = 5
    /\ response.data[3].booking_id = 4
    /\ response.data[3].provider = NULL

----------------------------------------------------------------------------
(* getEventOrders lines 72-74: Promise.all over parseOrderWithCowlendar,   *)
(* one product lookup per order in flight, each store response arriving    *)
(* in any order and either answering or failing                            *)

\* the longest batch
MaxBatch == 3

BatchOrder(id, vendor, product) ==
    [id |-> id, financial_status |-> s_paid,
     customer |-> Customer(<<"A", "d", "a">>, <<"R", "o", "s", "s", "i">>, mailA),
     note_attributes |-> <<Attr(k_Date, text_1130)>>,
     line_items |-> <<Item(s_Workshop, vendor, product, <<>>)>>]

\* qualifying orders: host in a metafield, host in a tag, no host, no product,
\* host in a metafield of another namespace
BatchPool ==
    {BatchOrder(61, s_Studio, 101), BatchOrder(62, NULL, 102),
     BatchOrder(63, s_Llamas, 104), BatchOrder(64, s_Other, 0),
     BatchOrder(65, s_Other, 103)}

Batches ==
    {b \in UNION {[1..n -> BatchPool] : n \in 0..MaxBatch} :
        \A i, j \in DOMAIN b : b[i] = b[j] => i = j}

ProductOf(order) == CHOOSE p \in Products : p.id = order.line_items[1].product_id

\* the promise of getProductHost: which response it awaits, the host it
\* resolved with, and which of its requests failed
Task(pc, host, failed) == [pc |-> pc, host |-> host, failed |-> failed]

\* a rejection that leaves getProductHost instead of being caught
Caught_Propagates(task) == Task("rejected", NULL, task.pc)

\* lines 351-354: the catch of getProductHost resolves with null
Caught(task) == Task("resolved", NULL, task.pc)

\* lines 277-288: parseOrderWithCowlendar runs up to the first request
Started(order) ==
    IF ~IsArray(order.line_items) \/ Len(order.line_items) = 0 THEN Task("resolved", NULL, "none")
    ELSE IF order.line_items[1].product_id = 0 THEN Task("resolved", NULL, "none")
         ELSE Task("metafields", NULL, "none")

\* lines 320-334: the metafields have arrived
AfterMetafields(task, fields) ==
    IF fields # <<>> THEN Task("resolved", fields[1].value, "none")
    ELSE Task("product", NULL, "none")

\* lines 337-350: the product has arrived
AfterProduct(task, product) ==
    Task("resolved",
         HostFromTags(product, SelectSeq(Split(product.tags, ","), IsHostTag)),
         "none")

\* lines 119-160 after the lookup: the parsed order of a settled task
Settled(order, task) ==
    ParsedOrderOf(order, extractCowlendarMetadata(order), task.host,
                  extractVendorFromOrder(order))

InitBatch ==
    /\ clock = StartDate
    /\ env = {}
    /\ op = "input"
    /\ arg \in Batches
    /\ meta = <<>>
    /\ ret = NULL
    /\ ServerIdle

\* eventOrders.map(...): every parseOrderWithCowlendar is called in turn and
\* runs to its first await
MapOrders ==
    /\ op = "input"
    /\ op' = "inFlight"
    /\ meta' = [i \in 1..Len(arg) |-> Started(arg[i])]
    /\ UNCHANGED <<clock, env, arg, ret, request, response, storeCalls>>

\* GET /products/<id>/metafields.json of order i answers or fails
MetafieldsResponse ==
    /\ op = "inFlight"
    /\ \E i \in 1..Len(arg), ok \in BOOLEAN :
          /\ meta[i].pc = "metafields"
          /\ meta' = [meta EXCEPT ![i] =
                         IF ok THEN AfterMetafields(meta[i],
                                        SelectSeq(ProductOf(arg[i]).metafields, IsHostMetafield))
                         ELSE Caught(meta[i])]
    /\ UNCHANGED <<clock, env, op, arg, ret, request, response, storeCalls>>

\* GET /products/<id>.json of order i answers or fails
ProductResponse ==
    /\ op = "inFlight"
    /\ \E i \in 1..Len(arg), ok \in BOOLEAN :
          /\ meta[i].pc = "product"
          /\ meta' = [meta EXCEPT ![i] =
                         IF ok THEN AfterProduct(meta[i], ProductOf(arg[i]))
                         ELSE Caught(meta[i])]
    /\ UNCHANGED <<clock, env, op, arg, ret, request, response, storeCalls>>

\* Promise.all settles: rejected with the first rejection, else fulfilled
\* with the parsed orders in the order of the input
PromiseAll ==
    /\ op = "inFlight"
    /\ \/ \E i \in 1..Len(arg) : meta[i].pc = "rejected"
       \/ \A i \in 1..Len(arg) : meta[i].pc = "resolved"
    /\ op' = "settled"
    /\ ret' = IF \E i \in 1..Len(arg) : meta[i].pc = "rejected"
              THEN [state |-> "rejected", value |-> <<>>]
              ELSE [state |-> "fulfilled",
                    value |-> [i \in 1..Len(arg) |-> Settled(arg[i], meta[i])]]
    /\ UNCHANGED <<clock, env, arg, meta, request, response, storeCalls>>

NextBatch == MapOrders \/ MetafieldsResponse \/ ProductResponse \/ PromiseAll

SpecBatch == InitBatch /\ [][NextBatch]_vars

\* C14: whatever the order of the responses and whichever of them fail, the
\* batch is fulfilled with one parsed order per input order, in the order of
\* the input; the order of a failed lookup has the provider of the vendor
\* fallback, and every other order is parsed as when nothing fails
C14_FailedLookupIsIsolated ==
    op = "settled" =>
        /\ ret.state = "fulfilled"
        /\ Len(ret.value) = Len(arg)
        /\ \A i \in 1..Len(arg) :
              /\ ret.value[i].shopifyOrderId = arg[i].id
              /\ meta[i].failed # "none" =>
                    /\ ret.value[i].provider = extractVendorFromOrder(arg[i])
                    /\ ret.value[i].host = extractVendorFromOrder(arg[i])
              /\ meta[i].failed = "none" => ret.value[i] = parseOrderWithCowlendar(arg[i])

\* three orders; the metafields request of the first and the product request
\* of the second failed, the third resolved its host
C14_Witness ==
    /\ op = "settled"
    /\ Len(arg) = 3
    /\ arg[1].id = 61 /\ arg[2].id = 62 /\ arg[3].id = 65
    /\ meta[1].failed = "metafields"
    /\ meta[2].failed = "product"
    /\ meta[3].failed = "none"
    /\ ret.value[1].provider = s_Studio
    /\ ret.value[2].provider = NULL
    /\ ret.value[3].provider = s_llamas

\* the fields of the query that filter the fetched orders in the server
LocalFields(route) ==
    IF route = "GET /api/orders" THEN {"provider", "event_date", "date_from", "date_to"}
    ELSE {"host", "event_date", "cowlendar_id"}

\* the local fields the request sets
SetFields == {f \in LocalFields(request.route) : request.query[f] # UNDEFINED}

\* the request with only the local fields of F kept
Only(req, F) ==
    [req EXCEPT !.query = [q \in DOMAIN req.query |->
                              IF q \in LocalFields(req.route) \ F THEN UNDEFINED
                              ELSE req.query[q]]]

\* the bookings the list route answers the request with
ListOf(req) ==
    IF req.route = "GET /api/orders" THEN OrdersList(req).response.data
    ELSE BookingsList(req).response.data

InList(b, list) == \E i \in 1..Len(list) : list[i] = b

\* the booking is in the result of every single-field filter
InEvery(b) == \A f \in SetFields : InList(b, ListOf(Only(request, {f})))

\* a list route answered a query that names no order id
ListAnswered ==
    /\ Answered
    /\ response.success
    /\ \/ request.route = "GET /api/orders"
       \/ request.route = "GET /api/bookings" /\ request.query.order_id = UNDEFINED

\* C15: a query with two or more local filter fields is answered with the
\* bookings that every single-field query returns, in the order of the
\* unfiltered list
C15_FiltersIntersect ==
    ListAnswered /\ Cardinality(SetFields) >= 2 =>
        response.data = SelectSeq(ListOf(Only(request, {})), InEvery)

\* provider Other until 2025-11-30: of the five bookings, two are of the
\* provider, two are in the dates, one is both
C15_Witness ==
    /\ ListAnswered
    /\ request.route = "GET /api/orders"
    /\ SetFields = {"provider", "date_to"}
    /\ request.query.provider = s_Other
    /\ Len(ListOf(Only(request, {}))) = 5
    /\ Len(ListOf(Only(request, {"provider"}))) = 2
    /\ Len(ListOf(Only(request, {"date_to"}))) = 2
    /\ Len(response.data) = 1
    /\ response.data[1].booking_id = 6

\* the name is, whatever the case, the provider of the booking or the vendor
\* of one of its line items
NamedBy(b, name) ==
    \/ Truthy(b.provider) /\ toLowerCase(b.provider) = toLowerCase(name)
    \/ \E i \in 1..Len(b.booking_details.items) :
          /\ Truthy(b.booking_details.items[i].vendor)
          /\ toLowerCase(b.booking_details.items[i].vendor) = toLowerCase(name)

NamedByProvider(b) == NamedBy(b, request.query.provider)

\* GET /api/orders answered a query whose only local field is the provider
ProviderAnswered ==
    /\ ListAnswered
    /\ request.route = "GET /api/orders"
    /\ SetFields = {"provider"}

\* C16: the provider filter keeps, of the bookings of the unfiltered list,
\* exactly those whose provider or one of whose line-item vendors is the
\* requested name, whatever the case; a booking with no provider and no
\* vendor is not kept
C16_ProviderFilterMatchesAnyVendor ==
    ProviderAnswered =>
        /\ response.data = SelectSeq(ListOf(Only(request, {})), NamedByProvider)
        /\ \A b \in Bookings :
              Truthy(b.provider) \/ \E i \in 1..Len(b.booking_details.items) :
                                        Truthy(b.booking_details.items[i].vendor)

\* provider Other: booking 6 is kept for the vendor of its second line item
\* (its provider is llamas and its first vendor Studio Marta), booking 4, with
\* no provider and no vendor, is not
C16_Witness ==
    /\ ProviderAnswered
    /\ request.query.provider = s_Other
    /\ \E b \in Bookings :
          /\ b.booking_id = 6
          /\ b.provider = s_llamas
          /\ b.booking_details.items[1].vendor = s_Studio
          /\ b.booking_details.items[2].vendor = s_Other
    /\ \E i \in 1..Len(ListOf(Only(request, {}))) :
          /\ ListOf(Only(request, {}))[i].booking_id = 4
          /\ ListOf(Only(request, {}))[i].provider = NULL
    /\ \A b \in Bookings : b.booking_id # 4

\* a calendar date written YYYY-MM-DD
IsIsoDate(d) ==
    /\ Len(d) = 10
    /\ \A i \in {1, 2, 3, 4, 6, 7, 9, 10} : IsDigit(d[i])
    /\ d[5] = "-" /\ d[8] = "-"

\* the booking has a calendar date within the bounds the request sets
InDates(b) ==
    /\ IsIsoDate(b.event.date)
    /\ Truthy(request.query.date_from) => ~StrLess(b.event.date, request.query.date_from)
    /\ Truthy(request.query.date_to) => ~StrLess(request.query.date_to, b.event.date)

\* GET /api/orders answered a query that sets date_from or date_to
DatesAnswered ==
    /\ ListAnswered
    /\ request.route = "GET /api/orders"
    /\ SetFields \cap {"date_from", "date_to"} # {}

\* C17: with date_from or date_to set, GET /api/orders returns, of the
\* bookings the other filters leave, exactly those with a calendar date
\* within the bounds; a booking without a valid calendar date is not returned
C17_DateBoundsKeepValidDatesOnly ==
    DatesAnswered =>
        response.data =
            SelectSeq(ListOf(Only(request, SetFields \ {"date_from", "date_to"})), InDates)

\* C18: whatever limit the caller asks for, every order fetch a route sends
\* to the store has a limit of at most 250
C18_StoreLimitAtMost250 ==
    Answered =>
        \A i \in 1..Len(storeCalls) :
            storeCalls[i].fn = "getOrders" => storeCalls[i].params.limit <= OrdersMaxLimit

----------------------------------------------------------------------------
(* BookingKitService.getValidAccessToken and refreshToken: callers that    *)
(* interleave at the await of the refresh request. Times are in minutes.   *)

\* the buffer before expiry, 300000 ms
RefreshMargin == 5

\* the most callers, and the last minute of the clock
MaxCallers == 2
MaxTime == 3

\* this.accessTokens.get(this.clientId): nothing stored, or a token that
\* expires inside or outside the buffer, with or without a refresh token
StoredToken(access, refresh, expires) ==
    [stored |-> TRUE, access_token |-> access, refresh_token |-> refresh,
     expires_at |-> expires]

NoStoredToken == [stored |-> FALSE]

StoredTokens ==
    {NoStoredToken} \cup
    {StoredToken(1, r, e) : r \in {0, 1}, e \in {4, 7, 20}}

Caller(pc, sent, token) == [pc |-> pc, sent |-> sent, token |-> token]

\* the last return of getValidAccessToken: the caller, the time, and the
\* expiry of the token returned
Returned(caller, at, expires) == [caller |-> caller, at |-> at, expires_at |-> expires]

NoReturn == Returned(0, 0, 0)

InitToken ==
    /\ clock = StartDate
    /\ env = {}
    /\ op = "token"
    /\ \E n \in 1..MaxCallers : arg = [c \in 1..n |-> Caller("idle", 0, 0)]
    /\ \E t \in StoredTokens : meta = [accessTokens |-> t, now |-> 0, issued |-> 1]
    /\ ret = NoReturn
    /\ ServerIdle

\* Date.now() advances
Tick ==
    /\ meta.now < MaxTime
    /\ meta' = [meta EXCEPT !.now = @ + 1]
    /\ UNCHANGED <<clock, env, op, arg, ret, request, response, storeCalls>>

\* Date.now() >= (tokenData.expires_at - 300000)
isExpired(tokenData, now) == now >= tokenData.expires_at - RefreshMargin

\* lines 92-109 up to the await: the caller throws without a token, posts a
\* refresh request when the token is expired and has a refresh token, and
\* else returns the stored access token
Called(tokenData, now) ==
    IF ~tokenData.stored THEN Caller("threw", 0, 0)
    ELSE IF isExpired(tokenData, now) /\ tokenData.refresh_token # 0
         THEN Caller("refreshing", tokenData.refresh_token, 0)
         ELSE Caller("returned", 0, tokenData.access_token)

GetValidAccessToken ==
    /\ \E c \in DOMAIN arg :
          /\ arg[c].pc = "idle"
          /\ arg' = [arg EXCEPT ![c] = Called(meta.accessTokens, meta.now)]
          /\ storeCalls' = IF arg'[c].pc = "refreshing"
                           THEN Append(storeCalls, [fn |-> "refreshToken", caller |-> c,
                                                    refresh_token |-> arg'[c].sent])
                           ELSE storeCalls
          /\ ret' = IF arg'[c].pc = "returned"
                    THEN Returned(c, meta.now, meta.accessTokens.expires_at)
                    ELSE ret
    /\ UNCHANGED <<clock, env, op, meta, request, response>>

\* lines 73-79: the token stored from the response; a response without a
\* new refresh token keeps the one that was sent
Refreshed(tokenData, sent, now) ==
    StoredToken(tokenData.access_token,
                IF tokenData.refresh_token # 0 THEN tokenData.refresh_token ELSE sent,
                now + tokenData.expires_in)

\* POST /oauth/token of caller c answers with a new access token, with or
\* without a new refresh token, or fails
RefreshResponse ==
    /\ \E c \in DOMAIN arg :
          /\ arg[c].pc = "refreshing"
          /\ \/ \E r \in {0, 1} :
                   /\ meta' = [meta EXCEPT
                                 !.issued = @ + 1,
                                 !.accessTokens =
                                     Refreshed([access_token |-> meta.issued + 1,
                                                refresh_token |-> r * (meta.issued + 1),
                                                expires_in |-> 10],
                                               arg[c].sent, meta.now)]
                   /\ arg' = [arg EXCEPT ![c] = Caller("returned", arg[c].sent,
                                                       meta.issued + 1)]
                   /\ ret' = Returned(c, meta.now, meta.now + 10)
             \/ /\ arg' = [arg EXCEPT ![c] = Caller("threw", arg[c].sent, 0)]
                /\ UNCHANGED <<meta, ret>>
    /\ UNCHANGED <<clock, env, op, request, response, storeCalls>>

NextToken == Tick \/ GetValidAccessToken \/ RefreshResponse

SpecToken == InitToken /\ [][NextToken]_vars

Refreshing == {c \in DOMAIN arg : arg[c].pc = "refreshing"}

\* C19: at most one refresh request is in flight at any time
C19_OneRefreshInFlight == Cardinality(Refreshing) <= 1

----------------------------------------------------------------------------
(* POST /api/bookingkit/webhooks: the request passes express.json() of     *)
(* server.js, then the route verifies the signature, parses the payload    *)
(* and processes it                                                        *)

BOOKINGKIT_WEBHOOK_SECRET == <<"B", "O", "O", "K", "I", "N", "G", "K", "I", "T", "_", "W", "E", "B", "H", "O", "O", "K", "_", "S", "E", "C", "R", "E", "T">>

\* the characters of a payload and of a signature
Bytes == Ascii \o <<"{", "}", "[", "]", "\"", "\\", "=", "!">>

Hex == Digits \o <<"a", "b", "c", "d", "e", "f">>

RECURSIVE Mix(_, _)
Mix(text, h) ==
    IF text = <<>> THEN h
    ELSE Mix(Tail(text), (h * 31 + IndexIn(Bytes, Head(text))) % 65536)

\* crypto.createHmac('sha256', key).update(text).digest('hex'): a keyed
\* digest of fixed length in hexadecimal, here of 16 bits
Hmac(key, text) ==
    LET h == Mix(text, Mix(key, 7))
    IN <<Hex[(h \div 4096) + 1], Hex[((h \div 256) % 16) + 1],
         Hex[((h \div 16) % 16) + 1], Hex[(h % 16) + 1]>>

\* a string literal of JSON without escapes
IsStringLit(t) ==
    /\ Len(t) >= 2
    /\ t[1] = "\"" /\ t[Len(t)] = "\""
    /\ \A i \in 2..(Len(t) - 1) : t[i] \notin {"\"", "\\"}

Unquoted(t) == SubSeq(t, 2, Len(t) - 1)

\* the colon between the key and the value of a one-member object
MemberColons(t) ==
    {k \in 3..(Len(t) - 2) :
        /\ t[k] = ":"
        /\ IsStringLit(SubSeq(t, 2, k - 1))
        /\ IsStringLit(SubSeq(t, k + 1, Len(t) - 1))}

JsonValue(kind, items) == [ok |-> TRUE, kind |-> kind, items |-> items]

SyntaxError == [ok |-> FALSE, kind |-> "none", items |-> <<>>]

MemberAt(t, k) ==
    [key |-> Unquoted(SubSeq(t, 2, k - 1)), value |-> Unquoted(SubSeq(t, k + 1, Len(t) - 1))]

\* JSON.parse over the JSON of the model: {}, {"key":"value"}, [] and
\* ["text"]; every other text is a SyntaxError
JsonParse(t) ==
    IF t = <<"{", "}">> THEN JsonValue("object", <<>>)
    ELSE IF t = <<"[", "]">> THEN JsonValue("array", <<>>)
    ELSE IF Len(t) < 4 THEN SyntaxError
    ELSE IF t[1] = "[" /\ t[Len(t)] = "]" /\ IsStringLit(Unquoted(t))
         THEN JsonValue("array", <<Unquoted(Unquoted(t))>>)
    ELSE IF t[1] = "{" /\ t[Len(t)] = "}" /\ MemberColons(t) # {}
         THEN JsonValue("object", <<MemberAt(t, CHOOSE k \in MemberColons(t) : TRUE)>>)
    ELSE SyntaxError

\* String(value) of a parsed body: Object.prototype.toString of an object,
\* Array.prototype.join of an array
toStringOf(v) ==
    IF v.kind = "object" THEN <<"[", "o", "b", "j", "e", "c", "t", " ", "O", "b", "j", "e", "c", "t", "]">>
    ELSE IF v.items = <<>> THEN <<>> ELSE v.items[1]

\* s.replace(pattern, ''): the first occurrence of the pattern is removed
Replace(s, pattern) ==
    LET at == {i \in 1..(Len(s) - Len(pattern) + 1) :
                  SubSeq(s, i, i + Len(pattern) - 1) = pattern}
    IN IF at = {} THEN s
       ELSE SubSeq(s, 1, Min(at) - 1) \o SubSeq(s, Min(at) + Len(pattern), Len(s))

\* crypto.timingSafeEqual of two buffers of equal length; lines 206-216: a
\* missing signature and buffers of different lengths throw, which is caught
SafeEqual(expectedSignature, providedSignature) ==
    IF Len(expectedSignature) # Len(providedSignature) THEN FALSE
    ELSE expectedSignature = providedSignature

verifyWebhookSignature(payload, signature) ==
    IF Falsy(Env(BOOKINGKIT_WEBHOOK_SECRET)) THEN TRUE
    ELSE IF signature = UNDEFINED THEN FALSE
    ELSE SafeEqual(Hmac(Env(BOOKINGKIT_WEBHOOK_SECRET), payload),
                   Replace(signature, <<"s", "h", "a", "2", "5", "6", "=">>))

s_booking_created == <<"b", "o", "o", "k", "i", "n", "g", ".", "c", "r", "e", "a", "t", "e", "d">>
s_booking_updated == <<"b", "o", "o", "k", "i", "n", "g", ".", "u", "p", "d", "a", "t", "e", "d">>
s_booking_cancelled == <<"b", "o", "o", "k", "i", "n", "g", ".", "c", "a", "n", "c", "e", "l", "l", "e", "d">>

\* payload.event_type
EventType(v) ==
    IF v.kind = "object" /\ v.items # <<>> /\ v.items[1].key = <<"e", "v", "e", "n", "t", "_", "t", "y", "p", "e">>
    THEN v.items[1].value
    ELSE UNDEFINED

\* processWebhook: the handlers of the three event types read data.id and
\* throw without data; any other event type is left unhandled
processWebhook(v) ==
    IF EventType(v) \in {s_booking_created, s_booking_updated, s_booking_cancelled}
    THEN [threw |-> TRUE, processed |-> FALSE]
    ELSE [threw |-> FALSE, processed |-> FALSE]

secret_1 == <<"s", "3", "c", "r", "e", "t">>
secret_2 == <<"0", "t", "h", "e", "r">>

WebhookEnvs ==
    {{}} \cup {{[name |-> BOOKINGKIT_WEBHOOK_SECRET, value |-> s]} : s \in {<<>>, secret_1}}

\* the raw bodies: two objects, arrays that hold a text, and a broken text
WebhookPayloads ==
    {<<"{", "}">>, <<"{", "\"", "e", "v", "e", "n", "t", "_", "t", "y", "p", "e", "\"", ":", "\"", "b", "o", "o", "k", "i", "n", "g", ".", "c", "r", "e", "a", "t", "e", "d", "\"", "}">>, <<"[", "\"", "{", "}", "\"", "]">>, <<"[", "\"", "[", "]", "\"", "]">>, <<"[", "]">>, <<"{", "\"", "e", "v", "e", "n", "t", "_", "t", "y", "p", "e", "\"">>}

\* the signatures a request may carry for its body: none, the digest of the
\* raw body under the secret (bare or prefixed), the digest of the parsed
\* body's string, a digest under another key, a shorter and a malformed text
WebhookSignatures(raw) ==
    {UNDEFINED, Hmac(secret_1, raw), <<"s", "h", "a", "2", "5", "6", "=">> \o Hmac(secret_1, raw),
     Hmac(secret_2, raw), <<"a", "b">>, <<"x", "y", "!", "z">>}
    \cup (IF JsonParse(raw).ok THEN {Hmac(secret_1, toStringOf(JsonParse(raw)))} ELSE {})

WebhookRequests ==
    {[route |-> "POST /api/bookingkit/webhooks", raw |-> raw,
      bookingkitSignature |-> a, webhookSignature |-> b] :
        raw \in WebhookPayloads,
        a \in UNION {WebhookSignatures(r) : r \in WebhookPayloads},
        b \in {UNDEFINED, Hmac(secret_1, <<"{", "}">>)}}

\* what the route has done so far
Progress(body, parsed, processed) ==
    [body |-> body, parsed |-> parsed, processed |-> processed]

InitWebhook ==
    /\ clock = StartDate
    /\ env \in WebhookEnvs
    /\ request \in WebhookRequests
    /\ op = "received"
    /\ meta = Progress(SyntaxError, FALSE, FALSE)
    /\ response = NoResponse
    /\ storeCalls = <<>>
    /\ arg = NULL
    /\ ret = NULL

\* app.use(express.json()) of server.js: the body is parsed before the
\* route; a broken body goes to the error handler
ExpressJson ==
    /\ op = "received"
    /\ IF JsonParse(request.raw).ok
       THEN /\ op' = "route"
            /\ meta' = Progress(JsonParse(request.raw), FALSE, FALSE)
            /\ UNCHANGED response
       ELSE /\ op' = "response"
            /\ response' = Respond(500, "Something went wrong!")
            /\ UNCHANGED meta
    /\ UNCHANGED <<clock, env, arg, ret, request, storeCalls>>

\* req.headers['x-bookingkit-signature'] || req.headers['x-webhook-signature']
SignatureOf(req) == Or(req.bookingkitSignature, req.webhookSignature)

\* lines 146-157: express.raw leaves the parsed body as it is; the signature
\* is verified over payload.toString()
VerifySignature ==
    /\ op = "route"
    /\ IF verifyWebhookSignature(toStringOf(meta.body), SignatureOf(request))
       THEN op' = "verified" /\ UNCHANGED response
       ELSE op' = "response" /\ response' = Respond(401, "Invalid signature")
    /\ UNCHANGED <<clock, env, arg, meta, ret, request, storeCalls>>

\* lines 159-169: JSON.parse(payload), of the payload converted to a string
ParsePayload ==
    /\ op = "verified"
    /\ IF JsonParse(toStringOf(meta.body)).ok
       THEN /\ op' = "parsed"
            /\ meta' = Progress(JsonParse(toStringOf(meta.body)), TRUE, FALSE)
            /\ UNCHANGED response
       ELSE /\ op' = "response"
            /\ response' = Respond(400, "Invalid JSON payload")
            /\ UNCHANGED meta
    /\ UNCHANGED <<clock, env, arg, ret, request, storeCalls>>

\* lines 171-189: processWebhook(webhookData) and the answer
ProcessWebhook ==
    /\ op = "parsed"
    /\ op' = "response"
    /\ meta' = [meta EXCEPT !.processed = TRUE]
    /\ response' = IF processWebhook(meta.body).threw
                   THEN Respond(500, "Failed to process webhook")
                   ELSE Success("webhook", <<processWebhook(meta.body)>>)
    /\ UNCHANGED <<clock, env, arg, ret, request, storeCalls>>

NextWebhook == ExpressJson \/ VerifySignature \/ ParsePayload \/ ProcessWebhook

SpecWebhook == InitWebhook /\ [][NextWebhook]_vars

\* the request carries the HMAC of its raw body under the configured secret,
\* bare or behind the prefix sha256=
ValidSignature ==
    /\ Truthy(Env(BOOKINGKIT_WEBHOOK_SECRET))
    /\ SignatureOf(request) \in
          {Hmac(Env(BOOKINGKIT_WEBHOOK_SECRET), request.raw),
           <<"s", "h", "a", "2", "5", "6", "=">> \o Hmac(Env(BOOKINGKIT_WEBHOOK_SECRET), request.raw)}

\* C20: whatever the secret configuration, the route parses and processes
\* the payload of a validly signed request only, and answers 401 to every
\* other request that reaches it
C20_ParsedOnlyAfterValidSignature ==
    /\ meta.parsed \/ meta.processed => ValidSignature
    /\ op \in {"verified", "parsed"} => ValidSignature

----------------------------------------------------------------------------
(* rateLimit(maxRequests, windowMs) of middleware/auth.js: one middleware  *)
(* over the rateLimitStore, requests of several clients arriving as the    *)
(* clock advances                                                          *)

\* the limiter under check is rateLimit(MaxRequests, WindowMs); the clock
\* runs to MaxClock
MaxRequests == 2
WindowMs == 2
MaxClock == 4

ClientIps == {"10.0.0.1", "10.0.0.2"}

\* requests.filter(time => time > windowStart)
RecentRequests(requests, windowStart) ==
    LET Recent(time) == time > windowStart
    IN SelectSeq(requests, Recent)

\* a limiter that lets one request more through
LimitReached_OneMore(recentRequests) == Len(recentRequests) > MaxRequests

\* recentRequests.length >= maxRequests
LimitReached(recentRequests) == Len(recentRequests) >= MaxRequests

\* lines 124-129: every entry of the store loses its old times (an entry left
\* empty is deleted, which reads as the empty list)
CleanedUp(store, windowStart) ==
    [ip \in DOMAIN store |-> RecentRequests(store[ip], windowStart)]

\* lines 131-148 for the request of clientIp at the time now, over the store
\* cleaned up: the decision and the store left behind
Limited(store, clientIp, now) ==
    IF LimitReached(RecentRequests(store[clientIp], now - WindowMs))
    THEN [status |-> 429, next |-> FALSE, store |-> store]
    ELSE [status |-> 0, next |-> TRUE,
          store |-> [store EXCEPT ![clientIp] =
                        Append(RecentRequests(store[clientIp], now - WindowMs), now)]]

InitRate ==
    /\ clock = StartDate
    /\ env = {}
    /\ op = "idle"
    /\ meta = [store |-> [ip \in ClientIps |-> <<>>], now |-> 0]
    /\ arg = [ip \in ClientIps |-> [t \in 0..MaxClock |-> 0]]
    /\ ret = NULL
    /\ ServerIdle

\* Date.now() advances
ClockTick ==
    /\ meta.now < MaxClock
    /\ meta' = [meta EXCEPT !.now = @ + 1]
    /\ op' = "tick"
    /\ UNCHANGED <<clock, env, arg, ret, request, response, storeCalls>>

\* a request of a client passes the middleware; arg counts, by client and
\* arrival time, the requests passed to next, ret is the decision on the
\* last request
RateLimit ==
    /\ \E clientIp \in ClientIps :
          LET decision == Limited(CleanedUp(meta.store, meta.now - WindowMs),
                                  clientIp, meta.now)
          IN /\ meta' = [meta EXCEPT !.store = decision.store]
             /\ ret' = [ip |-> clientIp, time |-> meta.now, status |-> decision.status,
                        next |-> decision.next]
             /\ arg' = IF decision.next
                       THEN [arg EXCEPT ![clientIp][meta.now] = @ + 1]
                       ELSE arg
    /\ op' = "request"
    /\ UNCHANGED <<clock, env, request, response, storeCalls>>

NextRate == ClockTick \/ RateLimit

SpecRate == InitRate /\ [][NextRate]_vars

RECURSIVE AdmittedFrom(_, _, _)
AdmittedFrom(ip, from, to) ==
    IF from > to THEN 0 ELSE arg[ip][from] + AdmittedFrom(ip, from + 1, to)

\* how many requests of the client were passed to next with arrival time in
\* (t - WindowMs, t]
AdmittedIn(ip, t) ==
    AdmittedFrom(ip, IF t - WindowMs + 1 > 0 THEN t - WindowMs + 1 ELSE 0, t)

\* how many of them came before the last request
AdmittedBefore == AdmittedIn(ret.ip, ret.time) - (IF ret.next THEN 1 ELSE 0)

\* C21: at every instant no client has more than MaxRequests admitted
\* requests in the window that ends there; a request is answered 429 exactly
\* when MaxRequests admitted requests of its own client lie in its window,
\* and then the store records nothing for it
C21_SlidingWindowPerClient ==
    /\ \A ip \in ClientIps, t \in 0..MaxClock : AdmittedIn(ip, t) <= MaxRequests
    /\ op = "request" =>
          /\ ret.status = 429 <=> AdmittedBefore >= MaxRequests
          /\ ret.status = 429 <=> ~ret.next
          /\ Len(RecentRequests(meta.store[ret.ip], ret.time - WindowMs))
                = AdmittedIn(ret.ip, ret.time)

\* a client is refused with its window full while the other client has one
\* admitted request in the same window
C21_Witness ==
    /\ op = "request"
    /\ ret.status = 429
    /\ AdmittedIn(ret.ip, ret.time) = MaxRequests
    /\ \E ip \in ClientIps \ {ret.ip} : AdmittedIn(ip, ret.time) = 1
    /\ arg[ret.ip][0] > 0 /\ ret.time > 0

\* the request is GET /api/orders/providers
ProvidersPath ==
    /\ request.route \in {OrdersRouter[i].route : i \in 1..Len(OrdersRouter)}
    /\ "orderId" \in DOMAIN request.params
    /\ request.params.orderId = s_providers

\* C22: GET /api/orders/providers with the global key is answered with
\* success by the providers handler, not as the lookup of an order
C22_ProvidersRouteIsReached ==
    Answered /\ ProvidersPath /\ GlobalKeyed =>
        /\ request.route = "GET /api/orders/providers"
        /\ response.success
        /\ storeCalls # <<OrderCall(s_providers)>>

\* the id of the single order the request asks for, undefined when it asks
\* for none
AskedOrderId ==
    IF request.route = "GET /api/orders/:orderId" THEN request.params.orderId
    ELSE IF request.route = "GET /api/bookings" THEN request.query.order_id
    ELSE IF request.route = "GET /api/bookings/:id"
            /\ request.query.id_type \in {UNDEFINED, s_shopify}
         THEN request.params.id
    ELSE UNDEFINED

\* the handler asked the store for the order and the store, reachable, has
\* no such order
AbsentUpstream ==
    /\ Answered
    /\ Truthy(AskedOrderId)
    /\ request.upstream = "up"
    /\ ~Fetched(request, AskedOrderId)
    /\ storeCalls # <<>>

\* C23: an order that the reachable store does not have is answered 404,
\* after a single fetch, on each of the three routes that fetch one order
C23_AbsentOrderIs404 ==
    AbsentUpstream =>
        /\ response.status = 404
        /\ storeCalls = <<OrderCall(AskedOrderId)>>

\* C24: when the store cannot be reached, a route that calls it answers
\* with a 5xx status
C24_UnreachableStoreIs5xx ==
    Answered /\ request.upstream # "up" /\ storeCalls # <<>> =>
        response.status >= 500

----------------------------------------------------------------------------
(* parseOrderWithCowlendar run twice on the same raw order, against the    *)
(* same store, while the clock of the process may pass into another year   *)

\* the last year the clock reaches
LastYear == 2027

text_yearless == <<"3", "0", " ", "n", "o", "v", ",", " ", "1", "7", ":", "0", "0", " ", "-", " ", "1", "8", ":", "3", "0", " ", "(", "E", "u", "r", "o", "p", "e", "/", "R", "o", "m", "e", ")">>

\* the order of ProviderCases with the schedule text given
RawOrder(c, text) ==
    [ProviderOrder(c) EXCEPT !.note_attributes = <<Attr(k_Date, text)>>]

InitTwice ==
    /\ clock = StartDate
    /\ env = {}
    /\ op = "input"
    /\ \E c \in ProviderCases, text \in {text_1130, text_yearless, text_bad} :
          /\ arg = RawOrder(c, text)
          /\ meta = [raw |-> RawOrder(c, text), withYear |-> text # text_yearless]
    /\ ret = <<>>
    /\ ServerIdle

\* one run of parseOrderWithCowlendar(order): the order is only read
Normalize ==
    /\ Len(ret) < 2
    /\ op' = "parseOrderWithCowlendar"
    /\ ret' = Append(ret, parseOrderWithCowlendar(arg))
    /\ UNCHANGED <<clock, env, arg, meta, request, response, storeCalls>>

\* the first day of the next year begins
NewYear ==
    /\ clock.y < LastYear
    /\ clock' = [y |-> clock.y + 1, m |-> 1, d |-> 1]
    /\ op' = "newYear"
    /\ UNCHANGED <<env, arg, meta, ret, request, response, storeCalls>>

NextTwice == Normalize \/ NewYear

SpecTwice == InitTwice /\ [][NextTwice]_vars

\* C25: two runs on the same raw order and the same store give the same
\* record, and the raw order is as it was
C25_NormalizeIsPure ==
    Len(ret) = 2 => ret[1] = ret[2] /\ arg = meta.raw

\* C26: a token returned by getValidAccessToken is, at the time of the
\* return, more than the buffer away from its expiry
C26_ReturnedTokenIsNotExpired ==
    ret.caller # 0 /\ arg[ret.caller].pc = "returned" =>
        ret.at < ret.expires_at - RefreshMargin

\* GET /api/bookings/:id by Shopify id reached its handler, for an order the
\* store has and that qualifies
QualifyingBookingAsked ==
    /\ Answered
    /\ request.route = "GET /api/bookings/:id"
    /\ request.query.id_type \in {UNDEFINED, s_shopify}
    /\ storeCalls # <<>>
    /\ Fetched(request, request.params.id)
    /\ hasCowlendarMetadata(FetchedOrder(request.params.id))

\* C27: the answer is a success that carries the booking of the parsed order
C27_BookingIsBuiltFromParsedOrder ==
    QualifyingBookingAsked =>
        /\ response.success
        /\ response.data =
              <<transformForBookun(parseOrderWithCowlendar(FetchedOrder(request.params.id)))>>

----------------------------------------------------------------------------
(* The OAuth flow of routes/bookingkit.js: /auth/authorize and             *)
(* /auth/callback over the sessions of express-session; a callback waits   *)
(* for the token exchange while other requests are handled                 *)

\* how many states /auth/authorize generates, how many callbacks are handled
\* at a time, and how many token exchanges are posted
MaxStates == 2
MaxInFlight == 2
MaxExchanges == 2

SessionIds == {1, 2}

\* no oauth_state in the session, no state in the query
NoState == 0

Idle == [pc |-> "idle"]

\* a callback that awaits exchangeCodeForToken: the session it was loaded
\* with, its query, and whether it began after an exchange for its state had
\* succeeded
Exchanging(sid, oauthState, query, replay) ==
    [pc |-> "exchanging", sid |-> sid, oauth_state |-> oauthState, query |-> query,
     replay |-> replay]

CallbackQueries ==
    {[code |-> c, state |-> s, error |-> e] :
        c \in {UNDEFINED, <<"a", "u", "t", "h", "-", "c", "o", "d", "e">>}, s \in 0..MaxStates, e \in {UNDEFINED, <<"a", "c", "c", "e", "s", "s", "_", "d", "e", "n", "i", "e", "d">>}}

\* the answer sent last, with what the properties need of the request
Sent(status, query, oauthState, replay, tokensBefore) ==
    [status |-> status, query |-> query, oauth_state |-> oauthState, replay |-> replay,
     tokensBefore |-> tokensBefore]

InitOAuth ==
    /\ clock = StartDate
    /\ env = {}
    /\ op = "idle"
    /\ meta = [sessions |-> [sid \in SessionIds |-> NoState], generated |-> 0,
               done |-> {}, exchanges |-> 0, tokens |-> 0]
    /\ arg = [slot \in 1..MaxInFlight |-> Idle]
    /\ ret = Sent(0, [code |-> UNDEFINED, state |-> NoState, error |-> UNDEFINED],
                  NoState, FALSE, 0)
    /\ ServerIdle

\* /auth/authorize: a state never generated before is stored in the session
Authorize ==
    /\ meta.generated < MaxStates
    /\ \E sid \in SessionIds :
          meta' = [meta EXCEPT !.generated = @ + 1,
                               !.sessions[sid] = meta.generated + 1]
    /\ op' = "authorize"
    /\ UNCHANGED <<clock, env, arg, ret, request, response, storeCalls>>

\* a callback that forgets to clear the state
Cleared_Keeps(oauthState) == oauthState

\* lines 85-88: delete req.session.oauth_state
Cleared(oauthState) == NoState

\* lines 52-80: the status the callback answers with before the exchange, 0
\* when it goes on to the exchange
Refused(query, sessionState) ==
    IF Truthy(query.error) THEN 400
    ELSE IF Falsy(query.code) THEN 400
    ELSE IF sessionState = NoState \/ sessionState # query.state THEN 400
    ELSE 0

\* /auth/callback up to the await: the session is loaded, the request is
\* refused or the token exchange is posted
Callback ==
    /\ \E slot \in 1..MaxInFlight, sid \in SessionIds, query \in CallbackQueries :
          /\ arg[slot] = Idle
          /\ IF Refused(query, meta.sessions[sid]) # 0
             THEN /\ ret' = Sent(Refused(query, meta.sessions[sid]), query,
                                 meta.sessions[sid], query.state \in meta.done, meta.tokens)
                  /\ UNCHANGED <<arg, meta>>
             ELSE /\ meta.exchanges < MaxExchanges
                  /\ arg' = [arg EXCEPT ![slot] =
                                Exchanging(sid, meta.sessions[sid], query,
                                           query.state \in meta.done)]
                  /\ meta' = [meta EXCEPT !.exchanges = @ + 1]
                  /\ UNCHANGED ret
    /\ op' = "callback"
    /\ UNCHANGED <<clock, env, request, response, storeCalls>>

\* the token exchange of a callback answers: the token is stored, the state
\* is cleared and the session saved; or it fails and the callback answers 500
ExchangeResponse ==
    /\ \E slot \in 1..MaxInFlight, ok \in BOOLEAN :
          /\ arg[slot].pc = "exchanging"
          /\ arg' = [arg EXCEPT ![slot] = Idle]
          /\ ret' = Sent(IF ok THEN 200 ELSE 500, arg[slot].query, arg[slot].oauth_state,
                         arg[slot].replay, meta.tokens)
          /\ meta' = IF ok
                     THEN [meta EXCEPT !.tokens = @ + 1,
                                       !.done = @ \cup {arg[slot].query.state},
                                       !.sessions[arg[slot].sid] = Cleared(arg[slot].oauth_state)]
                     ELSE meta
    /\ op' = "exchanged"
    /\ UNCHANGED <<clock, env, request, response, storeCalls>>

NextOAuth == Authorize \/ Callback \/ ExchangeResponse

SpecOAuth == InitOAuth /\ [][NextOAuth]_vars

\* the request carried a code, no error and the state stored in its session
WellFormedCallback(query, oauthState) ==
    /\ Truthy(query.code)
    /\ Falsy(query.error)
    /\ oauthState # NoState
    /\ query.state = oauthState

\* C28: a token exchange is posted only for a callback with a code, no error
\* and the state of its session; every other callback is answered 400 and
\* stores no token; a callback that begins after the exchange for its state
\* has succeeded is answered 400 and posts no exchange
C28_ExchangeOnlyForStoredState ==
    /\ \A slot \in 1..MaxInFlight :
          arg[slot].pc = "exchanging" =>
              /\ WellFormedCallback(arg[slot].query, arg[slot].oauth_state)
              /\ ~arg[slot].replay
    /\ ret.status # 0 /\ ~WellFormedCallback(ret.query, ret.oauth_state) =>
          ret.status = 400 /\ (op = "callback" => meta.tokens = ret.tokensBefore)
    /\ ret.replay => ret.status = 400
    /\ ret.status = 400 => ~WellFormedCallback(ret.query, ret.oauth_state)

\* after a successful exchange a callback with the same code and state, in
\* the same session, was answered 400
C28_Witness ==
    /\ op = "callback"
    /\ ret.status = 400
    /\ ret.replay
    /\ Truthy(ret.query.code) /\ Falsy(ret.query.error)
    /\ ret.query.state = 1
    /\ meta.tokens = 1 /\ meta.exchanges = 1

----------------------------------------------------------------------------
(* authenticateApiKey on its own: what it leaves on the request and what   *)
(* it answers, for every configuration of the keys                         *)

\* the configurations of ServerEnvs, and development with a global key, with
\* an empty global key, and with a host key
AuthEnvs ==
    ServerEnvs \cup
    {{[name |-> NODE_ENV, value |-> s_development], [name |-> API_KEY, value |-> key_global]},
     {[name |-> NODE_ENV, value |-> s_development], [name |-> API_KEY, value |-> <<>>]},
     {[name |-> NODE_ENV, value |-> s_development],
      [name |-> HOST_API_KEY_ \o s_OTHER, value |-> key_other]}}

InitAuth ==
    /\ clock = StartDate
    /\ env \in AuthEnvs
    /\ request \in Requests
    /\ op = "request"
    /\ response = NoResponse
    /\ storeCalls = <<>>
    /\ arg = NULL
    /\ meta = NULL
    /\ ret = NULL

\* the middleware runs on the request
AuthenticateApiKey ==
    /\ op = "request"
    /\ op' = "authenticateApiKey"
    /\ ret' = authenticateApiKey(request)
    /\ UNCHANGED <<clock, env, arg, meta, request, response, storeCalls>>

NextAuth == AuthenticateApiKey

SpecAuth == InitAuth /\ [][NextAuth]_vars

\* neither a global key nor a host key is configured
NoKeyConfigured ==
    ~\E e \in env : \/ e.name = API_KEY /\ Truthy(e.value)
                    \/ startsWith(e.name, HOST_API_KEY_)

InDevelopment == [name |-> NODE_ENV, value |-> s_development] \in env

\* C29: a request is passed on only with the global key, marked 'global',
\* or with a host key, marked 'host' with the lowercased host name, or in
\* development with no key configured; any other request is answered 500
\* when no key is configured, else 401 when it presents no key, else 403
C29_PassedOnlyWithAConfiguredKey ==
    op = "authenticateApiKey" =>
        /\ ret.next =>
              \/ Truthy(PresentedKey) /\ GlobalKeyed /\ ret.as = "global"
              \/ \E h \in ConfiguredHosts :
                    Truthy(PresentedKey) /\ HostKeyed(h) /\ ret.as = "host" /\ ret.host = h
              \/ InDevelopment /\ NoKeyConfigured
        /\ ~ret.next =>
              ret.response.status =
                 IF NoKeyConfigured THEN 500
                 ELSE IF Falsy(PresentedKey) THEN 401
                 ELSE 403
        /\ ret.next <=>
              \/ InDevelopment /\ NoKeyConfigured
              \/ ~NoKeyConfigured /\ Truthy(PresentedKey)
                    /\ (GlobalKeyed \/ \E h \in ConfiguredHosts : HostKeyed(h))

\* a host key given in the query parameter passed, marked with the host
C29_Witness ==
    /\ op = "authenticateApiKey"
    /\ request.headerKey = UNDEFINED
    /\ request.queryKey = key_llamas
    /\ ret.next /\ ret.as = "host" /\ ret.host = s_llamas

----------------------------------------------------------------------------
(* POST /api/bookingkit/sync: the orders are fetched one by one or listed  *)
(* by provider, then a booking is created for each in BookingKit           *)

\* the longest order_ids list of a sync request
MaxSync == 3

\* the ids asked for: a qualifying order, two more of the store, an absent one
SyncIds == {<<"1">>, <<"2">>, <<"3">>, <<"9", "9">>}

\* the body: order_ids an array, or absent and the orders listed by provider
SyncBodies ==
    {[by |-> "order_ids", order_ids |-> ids, provider |-> UNDEFINED] :
        ids \in UNION {[1..n -> SyncIds] : n \in 0..MaxSync}}
    \cup {[by |-> "provider", order_ids |-> <<>>, provider |-> p] : p \in {UNDEFINED, s_llamas, s_Other, s_nobody}}

\* the position of the handler: the loop it is in and the index in it
SyncAt(pc, i, ordersToSync, syncResults) ==
    [pc |-> pc, i |-> i, ordersToSync |-> ordersToSync, syncResults |-> syncResults]

InitSync ==
    /\ clock = StartDate
    /\ env = {}
    /\ op = "request"
    /\ \E body \in SyncBodies, u \in Upstreams : meta = [body |-> body, upstream |-> u]
    /\ arg = SyncAt(IF meta.body.by = "provider" THEN "list" ELSE "fetch", 1, <<>>, <<>>)
    /\ ret = NULL
    /\ ServerIdle

\* lines 204-214: one order id of order_ids: the order is fetched and, when
\* it qualifies, normalized and pushed; a failure is logged and skipped
SyncFetch ==
    /\ arg.pc = "fetch"
    /\ arg.i <= Len(meta.body.order_ids)
    /\ LET id == meta.body.order_ids[arg.i]
           pushed == IF Fetched(meta, id) /\ hasCowlendarMetadata(FetchedOrder(id))
                     THEN Append(arg.ordersToSync, parseOrderWithCowlendar(FetchedOrder(id)))
                     ELSE arg.ordersToSync
       IN arg' = SyncAt("fetch", arg.i + 1, pushed, <<>>)
    /\ op' = "getOrderById"
    /\ UNCHANGED <<clock, env, meta, ret, request, response, storeCalls>>

\* lines 217-223: the orders of the provider, or all event orders; a failure
\* is caught by the handler (lines 267-273)
SyncList ==
    /\ arg.pc = "list"
    /\ IF meta.upstream = "up"
       THEN /\ arg' = SyncAt("fetch", 1,
                             IF Truthy(meta.body.provider)
                             THEN getOrdersByProvider(meta.body.provider, [limit |-> DefaultLimit])
                             ELSE getEventOrders([limit |-> DefaultLimit]),
                             <<>>)
            /\ op' = "getOrders"
            /\ UNCHANGED response
       ELSE /\ arg' = SyncAt("done", 1, <<>>, <<>>)
            /\ op' = "response"
            /\ response' = [status |-> 500, success |-> FALSE]
    /\ UNCHANGED <<clock, env, meta, ret, request, storeCalls>>

SyncEntry(order, status) == [shopify_order_id |-> order.shopifyOrderId, status |-> status]

\* the catch of the sync loop that records nothing
SyncFailed_NoEntry(syncResults, order) == syncResults

\* lines 246-253: the failure of one order is recorded
SyncFailed(syncResults, order) == Append(syncResults, SyncEntry(order, "failed"))

\* both loops are over
FetchingDone ==
    /\ arg.pc = "fetch"
    /\ meta.body.by = "order_ids" => arg.i > Len(meta.body.order_ids)

\* lines 236-254: one order of ordersToSync: the booking is created, or
\* BookingKit refuses it, or BookingKit answers without a body and reading
\* result.id throws
SyncCreate ==
    /\ FetchingDone \/ arg.pc = "create"
    /\ LET i == IF arg.pc = "create" THEN arg.i ELSE 1
       IN /\ i <= Len(arg.ordersToSync)
          /\ \E outcome \in {"created", "refused", "no body"} :
                arg' = SyncAt("create", i + 1, arg.ordersToSync,
                              IF outcome = "created"
                              THEN Append(arg.syncResults, SyncEntry(arg.ordersToSync[i], "synced"))
                              ELSE SyncFailed(arg.syncResults, arg.ordersToSync[i]))
          /\ storeCalls' = Append(storeCalls, [fn |-> "createBooking",
                                               id |-> arg.ordersToSync[i].shopifyOrderId])
    /\ op' = "createBooking"
    /\ UNCHANGED <<clock, env, meta, ret, request, response>>

CountOf(syncResults, status) ==
    Cardinality({i \in 1..Len(syncResults) : syncResults[i].status = status})

\* lines 226-232 and 256-265: the answer
SyncRespond ==
    /\ \/ FetchingDone /\ arg.ordersToSync = <<>>
       \/ arg.pc = "create" /\ arg.i > Len(arg.ordersToSync)
    /\ response' = IF arg.ordersToSync = <<>>
                   THEN [status |-> 200, success |-> TRUE, synced |-> 0]
                   ELSE [status |-> 200, success |-> TRUE,
                         synced |-> CountOf(arg.syncResults, "synced"),
                         failed |-> CountOf(arg.syncResults, "failed"),
                         results |-> arg.syncResults]
    /\ arg' = [arg EXCEPT !.pc = "done"]
    /\ op' = "response"
    /\ UNCHANGED <<clock, env, meta, ret, request, storeCalls>>

NextSync == SyncFetch \/ SyncList \/ SyncCreate \/ SyncRespond

SpecSync == InitSync /\ [][NextSync]_vars

\* the order of the id can be fetched and qualifies
Syncable(id) == Fetched(meta, id) /\ hasCowlendarMetadata(FetchedOrder(id))

\* the ids of order_ids that can be fetched and qualify, in their order
SyncableIds == SelectSeq(meta.body.order_ids, Syncable)

\* C30: the answer has one result per order to sync, in the order of the
\* list, each 'synced' or 'failed'; a booking was attempted for every order;
\* synced + failed is the number of orders; with order_ids the orders to sync
\* are those of the ids that can be fetched and qualify
C30_OneResultPerOrder ==
    op = "response" /\ response.status = 200 =>
        /\ meta.body.by = "order_ids" =>
              /\ Len(arg.ordersToSync) = Len(SyncableIds)
              /\ \A i \in 1..Len(SyncableIds) :
                    arg.ordersToSync[i].shopifyOrderId = toInt(SyncableIds[i])
        /\ Len(storeCalls) = Len(arg.ordersToSync)
        /\ \A i \in 1..Len(storeCalls) : storeCalls[i].id = arg.ordersToSync[i].shopifyOrderId
        /\ arg.ordersToSync = <<>> => response.synced = 0
        /\ arg.ordersToSync # <<>> =>
              /\ Len(response.results) = Len(arg.ordersToSync)
              /\ \A i \in 1..Len(response.results) :
                    /\ response.results[i].shopify_order_id = arg.ordersToSync[i].shopifyOrderId
                    /\ response.results[i].status \in {"synced", "failed"}
              /\ response.synced + response.failed = Len(arg.ordersToSync)

\* an order failed, a later one was synced, and an id was skipped
C30_Witness ==
    /\ op = "response"
    /\ response.status = 200
    /\ meta.body.by = "order_ids"
    /\ Len(meta.body.order_ids) = 3
    /\ Len(arg.ordersToSync) = 2
    /\ response.results[1].status = "failed"
    /\ response.results[2].status = "synced"

====
